---- MODULE Spec2Model ----
(***************************************************************************)
(* Path/URL resolution layer of the jenkins-api client:                    *)
(*   - impl Display for Path   (src/src/client_internals/path.rs:94-202)   *)
(*   - Jenkins::url_to_path    (src/src/client_internals/path.rs:205-290)  *)
(* Strings are sequences of one-character strings, so that the byte-offset *)
(* slicing of the parser is modelled as the code performs it.  Unsigned    *)
(* 32-bit values are kept as two 16-bit limbs [hi, lo] (value hi*2^16+lo). *)
(***************************************************************************)
EXTENDS Integers, Sequences, FiniteSets, TLC

VARIABLES jenkins, input, path, rendered, fed, reparsed, pc,
          op, pending, requests, outcome, response, tree, appended, query

vars == <<jenkins, input, path, rendered, fed, reparsed, pc,
          op, pending, requests, outcome, response, tree, appended, query>>

\* the variables of the client's operations and of the tree-query builder
clientVars == <<op, pending, requests, outcome, response>>
treeVars == <<tree, appended, query>>

(***************************************************************************)
(* Bounds of the model.                                                    *)
(***************************************************************************)
\* number of '/'-separated segments of a generated input path
MaxSegs == 5
\* number of folder levels of the generated nested-folder inputs
MaxDepth == 2
\* number of InFolder wrappers around a constructed Path value
MaxNest == 1
\* number of segments of a generated link to another server
MaxForeignSegs == 3

(***************************************************************************)
(* String literals of the source.                                          *)
(***************************************************************************)
lit_view == <<"/", "v", "i", "e", "w">>
lit_job == <<"/", "j", "o", "b">>
lit_queue == <<"/", "q", "u", "e", "u", "e">>
lit_mavenArtifacts ==
    <<"/", "m", "a", "v", "e", "n", "A", "r", "t", "i", "f", "a", "c", "t", "s">>
lit_item == <<"/", "i", "t", "e", "m">>
lit_build == <<"/", "b", "u", "i", "l", "d">>
lit_consoleText == <<"/", "c", "o", "n", "s", "o", "l", "e", "T", "e", "x", "t">>
lit_config_xml == <<"/", "c", "o", "n", "f", "i", "g", ".", "x", "m", "l">>
lit_slash == <<"/">>

\* the base URL the tests of path.rs configure the client with
JENKINS_URL ==
    <<"h", "t", "t", "p", ":", "/", "/", "n", "o", "n", "e", ":", "8", "0", "8", "0">>

(***************************************************************************)
(* Rust string primitives: offsets are 0-based, ranges half-open.  A       *)
(* string is the sequence of its characters and an offset counts           *)
(* characters; the code's offsets count bytes.  The two agree wherever the *)
(* code takes an offset from a '/' found by char_indices or from the       *)
(* length of a matched ASCII prefix; they differ for path.len() - 1, which *)
(* SplitsLastChar accounts for.                                            *)
(***************************************************************************)
\* &s[a..b]
Slice(s, a, b) == SubSeq(s, a + 1, b)

\* &s[a..]
SliceFrom(s, a) == SubSeq(s, a + 1, Len(s))

\* s.starts_with(p)
starts_with(s, p) == Len(p) <= Len(s) /\ SubSeq(s, 1, Len(p)) = p

\* path.char_indices().filter(|c| c.1 == '/').map(|c| c.0).collect():
\* the 0-based offsets of the '/' characters, in increasing order
RECURSIVE SlashesFrom(_, _)
SlashesFrom(s, i) ==
    IF i > Len(s) THEN <<>>
    ELSE (IF s[i] = "/" THEN <<i - 1>> ELSE <<>>) \o SlashesFrom(s, i + 1)

Slashes(s) == SlashesFrom(s, 1)

(***************************************************************************)
(* Integer parsing and formatting (str::parse::<u32>, ::<i32>, "{}").      *)
(***************************************************************************)
Limb == 65536
HalfLimb == 32768

DigitChars == <<"0", "1", "2", "3", "4", "5", "6", "7", "8", "9">>

IsDigit(c) == \E d \in 1..10 : DigitChars[d] = c

DigitValue(c) == (CHOOSE d \in 1..10 : DigitChars[d] = c) - 1

Zero32 == [hi |-> 0, lo |-> 0]

\* v * 10 + d on limbs; hi may leave the 16-bit range, which is the overflow
MulAdd10(v, d) ==
    LET lo2 == v.lo * 10 + d
    IN [hi |-> v.hi * 10 + (lo2 \div Limb), lo |-> lo2 % Limb]

\* Accumulate decimal digits left to right; "Err" as soon as a character is
\* not a digit or the value exceeds the magnitude limit [hi, lo] given.
RECURSIVE ParseDigits(_, _, _, _)
ParseDigits(s, i, acc, limit) ==
    IF i > Len(s) THEN [ok |-> TRUE, v |-> acc]
    ELSE IF ~IsDigit(s[i]) THEN [ok |-> FALSE]
    ELSE LET n == MulAdd10(acc, DigitValue(s[i]))
         IN IF n.hi > limit.hi \/ (n.hi = limit.hi /\ n.lo > limit.lo)
            THEN [ok |-> FALSE]
            ELSE ParseDigits(s, i + 1, n, limit)

U32Max == [hi |-> Limb - 1, lo |-> Limb - 1]
I32Max == [hi |-> HalfLimb - 1, lo |-> Limb - 1]
I32MinMagnitude == [hi |-> HalfLimb, lo |-> 0]

\* mutant of ParseU32: a strict parser that rejects the leading '+'
ParseU32_NoPlus(s) ==
    IF s = <<>> THEN [ok |-> FALSE] ELSE ParseDigits(s, 1, Zero32, U32Max)

\* s.parse::<u32>(): an optional '+', then one or more decimal digits, value
\* at most 2^32 - 1.  A '-' is never accepted for an unsigned type.
ParseU32(s) ==
    IF s = <<>> THEN [ok |-> FALSE]
    ELSE LET digits == IF s[1] = "+" THEN Tail(s) ELSE s
         IN IF digits = <<>> THEN [ok |-> FALSE]
            ELSE ParseDigits(digits, 1, Zero32, U32Max)

\* s.parse::<i32>(): an optional '+' or '-', then one or more decimal digits,
\* value within -2^31 .. 2^31 - 1.
ParseI32(s) ==
    IF s = <<>> THEN [ok |-> FALSE]
    ELSE LET neg == s[1] = "-"
             digits == IF s[1] = "+" \/ s[1] = "-" THEN Tail(s) ELSE s
         IN IF digits = <<>> THEN [ok |-> FALSE]
            ELSE LET r == ParseDigits(digits, 1, Zero32,
                                      IF neg THEN I32MinMagnitude ELSE I32Max)
                 IN IF ~r.ok THEN r
                    ELSE [ok |-> TRUE,
                          v |-> [neg |-> neg /\ r.v # Zero32, mag |-> r.v]]

\* write!(f, "{}", n) for an unsigned value: decimal, no sign, no leading zero
RECURSIVE FmtU32(_)
FmtU32(v) ==
    LET qhi == v.hi \div 10
        t == (v.hi % 10) * Limb + v.lo
        q == [hi |-> qhi, lo |-> t \div 10]
        digit == <<DigitChars[(t % 10) + 1]>>
    IN IF q = Zero32 THEN digit ELSE FmtU32(q) \o digit

\* mutant of FmtI32: the sign is not written
FmtI32_NoSign(v) == FmtU32(v.mag)

\* write!(f, "{}", id) for a signed value
FmtI32(v) == (IF v.neg THEN <<"-">> ELSE <<>>) \o FmtU32(v.mag)

(***************************************************************************)
(* Name and its Display (path.rs:8-22).                                    *)
(***************************************************************************)
PlainName(s) == [tag |-> "Name", v |-> s]

\* mutant of UrlEncodedName: the text is tagged as a plain name
UrlEncodedName_AsPlain(s) == [tag |-> "Name", v |-> s]

UrlEncodedName(s) == [tag |-> "UrlEncodedName", v |-> s]

None == [tag |-> "None"]
Some(x) == [tag |-> "Some", v |-> x]

\* [a-zA-Z]
Letters ==
    {"a", "b", "c", "d", "e", "f", "g", "h", "i", "j", "k", "l", "m", "n", "o", "p", "q",
     "r", "s", "t", "u", "v", "w", "x", "y", "z", "A", "B", "C", "D", "E", "F", "G", "H",
     "I", "J", "K", "L", "M", "N", "O", "P", "Q", "R", "S", "T", "U", "V", "W", "X", "Y",
     "Z"}

\* the characters urlencoding::encode leaves as they are
Unreserved ==
    Letters \cup {"0", "1", "2", "3", "4", "5", "6", "7", "8", "9", "-", "_", ".", "~"}

\* the ASCII characters 0x20 to 0x5F in the order of their codes
AsciiLow ==
    <<" ", "!", "\"", "#", "$", "%", "&", "'", "(", ")", "*", "+",
      ",", "-", ".", "/", "0", "1", "2", "3", "4", "5", "6", "7",
      "8", "9", ":", ";", "<", "=", ">", "?", "@", "A", "B", "C",
      "D", "E", "F", "G", "H", "I", "J", "K", "L", "M", "N", "O",
      "P", "Q", "R", "S", "T", "U", "V", "W", "X", "Y", "Z", "[",
      "\\", "]", "^", "_">>

\* the ASCII characters 0x61 to 0x7E in the order of their codes (0x60, the
\* grave accent, cannot be written as a string here and is in no input)
AsciiHigh ==
    <<"a", "b", "c", "d", "e", "f", "g", "h", "i", "j", "k", "l",
      "m", "n", "o", "p", "q", "r", "s", "t", "u", "v", "w", "x",
      "y", "z", "{", "|", "}", "~">>

Chars(table) == {table[i] : i \in 1..Len(table)}

IndexOf(c, table) == CHOOSE i \in 1..Len(table) : table[i] = c

\* the UTF-8 bytes of a character: printable ASCII, tab, line feed, carriage
\* return, and the two-byte character of the inputs
Utf8Bytes(c) ==
    CASE c = "\t" -> <<9>>
      [] c = "\n" -> <<10>>
      [] c = "\r" -> <<13>>
      [] c = "é" -> <<195, 169>>
      [] c \in Chars(AsciiLow) -> <<31 + IndexOf(c, AsciiLow)>>
      [] c \in Chars(AsciiHigh) -> <<96 + IndexOf(c, AsciiHigh)>>

HexDigits ==
    <<"0", "1", "2", "3", "4", "5", "6", "7", "8", "9", "A", "B", "C", "D", "E", "F">>

\* %XX, upper-case hexadecimal
PercentByte(b) == <<"%", HexDigits[(b \div 16) + 1], HexDigits[(b % 16) + 1]>>

RECURSIVE PercentBytes(_)
PercentBytes(bs) ==
    IF bs = <<>> THEN <<>> ELSE PercentByte(Head(bs)) \o PercentBytes(Tail(bs))

\* urlencoding::encode on one character: ASCII letters, digits and - _ . ~ stay,
\* every other byte becomes %XX
EncodeChar(c) == IF c \in Unreserved THEN <<c>> ELSE PercentBytes(Utf8Bytes(c))

RECURSIVE urlencoding_encode(_)
urlencoding_encode(s) ==
    IF s = <<>> THEN <<>> ELSE EncodeChar(Head(s)) \o urlencoding_encode(Tail(s))

\* mutant of FmtName: a Name is written without percent-encoding
FmtName_Verbatim(n) == n.v

FmtName(n) == IF n.tag = "Name" THEN urlencoding_encode(n.v) ELSE n.v

(***************************************************************************)
(* BuildNumber and its Display (build/common.rs:106-137).                  *)
(***************************************************************************)
Number(n) == [tag |-> "Number", n |-> n]
UnknownAlias(s) == [tag |-> "UnknownAlias", alias |-> s]

FmtBuildNumber(n) ==
    CASE n.tag = "LastBuild" -> <<"l", "a", "s", "t", "B", "u", "i", "l", "d">>
      [] n.tag = "LastSuccessfulBuild" ->
            <<"l", "a", "s", "t", "S", "u", "c", "c", "e", "s", "s", "f", "u", "l",
              "B", "u", "i", "l", "d">>
      [] n.tag = "LastStableBuild" ->
            <<"l", "a", "s", "t", "S", "t", "a", "b", "l", "e", "B", "u", "i", "l", "d">>
      [] n.tag = "LastCompletedBuild" ->
            <<"l", "a", "s", "t", "C", "o", "m", "p", "l", "e", "t", "e", "d",
              "B", "u", "i", "l", "d">>
      [] n.tag = "LastFailedBuild" ->
            <<"l", "a", "s", "t", "F", "a", "i", "l", "e", "d", "B", "u", "i", "l", "d">>
      [] n.tag = "LastUnsuccessfulBuild" ->
            <<"l", "a", "s", "t", "U", "n", "s", "u", "c", "c", "e", "s", "s", "f", "u", "l",
              "B", "u", "i", "l", "d">>
      [] n.tag = "Number" -> FmtU32(n.n)
      [] n.tag = "UnknownAlias" -> n.alias

(***************************************************************************)
(* Path (path.rs:24-93).  A value is a record with a tag and the variant's *)
(* fields; Panic is the outcome of a call that does not return.            *)
(***************************************************************************)
Home == [tag |-> "Home"]
View(name) == [tag |-> "View", name |-> name]
AddJobToView(job_name, view_name) ==
    [tag |-> "AddJobToView", job_name |-> job_name, view_name |-> view_name]
RemoveJobFromView(job_name, view_name) ==
    [tag |-> "RemoveJobFromView", job_name |-> job_name, view_name |-> view_name]
Job(name, configuration) ==
    [tag |-> "Job", name |-> name, configuration |-> configuration]
BuildJob(name) == [tag |-> "BuildJob", name |-> name]
BuildJobWithParameters(name) == [tag |-> "BuildJobWithParameters", name |-> name]
PollSCMJob(name) == [tag |-> "PollSCMJob", name |-> name]
JobEnable(name) == [tag |-> "JobEnable", name |-> name]
JobDisable(name) == [tag |-> "JobDisable", name |-> name]
Build(job_name, number, configuration) ==
    [tag |-> "Build", job_name |-> job_name, number |-> number,
     configuration |-> configuration]
ConsoleText(job_name, number, configuration, folder_name) ==
    [tag |-> "ConsoleText", job_name |-> job_name, number |-> number,
     configuration |-> configuration, folder_name |-> folder_name]
ConfigXML(job_name, folder_name) ==
    [tag |-> "ConfigXML", job_name |-> job_name, folder_name |-> folder_name]
Queue == [tag |-> "Queue"]
QueueItem(id) == [tag |-> "QueueItem", id |-> id]
MavenArtifactRecord(job_name, number, configuration) ==
    [tag |-> "MavenArtifactRecord", job_name |-> job_name, number |-> number,
     configuration |-> configuration]
InFolder(folder_name, p) == [tag |-> "InFolder", folder_name |-> folder_name, path |-> p]
Computers == [tag |-> "Computers"]
Computer(name) == [tag |-> "Computer", name |-> name]
Raw(p) == [tag |-> "Raw", path |-> p]
CrumbIssuer == [tag |-> "CrumbIssuer"]

Panic == [tag |-> "Panic"]

(***************************************************************************)
(* impl Display for Path (path.rs:94-202).                                 *)
(***************************************************************************)
\* mutant of ConsoleText_fmt: with a folder, the configuration is written
\* before the job
ConsoleText_fmt_ConfigFirst(p) ==
    CASE p.configuration.tag = "None" /\ p.folder_name.tag = "None" ->
            lit_job \o lit_slash \o FmtName(p.job_name)
            \o lit_slash \o FmtBuildNumber(p.number) \o lit_consoleText
      [] p.configuration.tag = "Some" /\ p.folder_name.tag = "None" ->
            lit_job \o lit_slash \o FmtName(p.job_name)
            \o lit_slash \o FmtName(p.configuration.v)
            \o lit_slash \o FmtBuildNumber(p.number) \o lit_consoleText
      [] p.configuration.tag = "None" /\ p.folder_name.tag = "Some" ->
            lit_job \o lit_slash \o FmtName(p.folder_name.v)
            \o lit_job \o lit_slash \o FmtName(p.job_name)
            \o lit_slash \o FmtBuildNumber(p.number) \o lit_consoleText
      [] p.configuration.tag = "Some" /\ p.folder_name.tag = "Some" ->
            lit_job \o lit_slash \o FmtName(p.folder_name.v)
            \o lit_job \o lit_slash \o FmtName(p.configuration.v)
            \o lit_slash \o FmtName(p.job_name)
            \o lit_slash \o FmtBuildNumber(p.number) \o lit_consoleText

\* the four ConsoleText arms of Display (path.rs:132-163)
ConsoleText_fmt(p) ==
    CASE p.configuration.tag = "None" /\ p.folder_name.tag = "None" ->
            lit_job \o lit_slash \o FmtName(p.job_name)
            \o lit_slash \o FmtBuildNumber(p.number) \o lit_consoleText
      [] p.configuration.tag = "Some" /\ p.folder_name.tag = "None" ->
            lit_job \o lit_slash \o FmtName(p.job_name)
            \o lit_slash \o FmtName(p.configuration.v)
            \o lit_slash \o FmtBuildNumber(p.number) \o lit_consoleText
      [] p.configuration.tag = "None" /\ p.folder_name.tag = "Some" ->
            lit_job \o lit_slash \o FmtName(p.folder_name.v)
            \o lit_job \o lit_slash \o FmtName(p.job_name)
            \o lit_slash \o FmtBuildNumber(p.number) \o lit_consoleText
      [] p.configuration.tag = "Some" /\ p.folder_name.tag = "Some" ->
            lit_job \o lit_slash \o FmtName(p.folder_name.v)
            \o lit_job \o lit_slash \o FmtName(p.job_name)
            \o lit_slash \o FmtName(p.configuration.v)
            \o lit_slash \o FmtBuildNumber(p.number) \o lit_consoleText

RECURSIVE Display(_)
Display(p) ==
    CASE p.tag = "Home" -> <<>>
      [] p.tag = "View" -> lit_view \o lit_slash \o FmtName(p.name)
      [] p.tag = "AddJobToView" ->
            lit_view \o lit_slash \o FmtName(p.view_name)
            \o <<"/", "a", "d", "d", "J", "o", "b", "T", "o", "V", "i", "e", "w",
                 "?", "n", "a", "m", "e", "=">>
            \o FmtName(p.job_name)
      [] p.tag = "RemoveJobFromView" ->
            lit_view \o lit_slash \o FmtName(p.view_name)
            \o <<"/", "r", "e", "m", "o", "v", "e", "J", "o", "b", "F", "r", "o", "m",
                 "V", "i", "e", "w", "?", "n", "a", "m", "e", "=">>
            \o FmtName(p.job_name)
      [] p.tag = "Job" ->
            IF p.configuration.tag = "Some"
            THEN lit_job \o lit_slash \o FmtName(p.name)
                 \o lit_slash \o FmtName(p.configuration.v)
            ELSE lit_job \o lit_slash \o FmtName(p.name)
      [] p.tag = "BuildJob" -> lit_job \o lit_slash \o FmtName(p.name) \o lit_build
      [] p.tag = "BuildJobWithParameters" ->
            lit_job \o lit_slash \o FmtName(p.name)
            \o <<"/", "b", "u", "i", "l", "d", "W", "i", "t", "h",
                 "P", "a", "r", "a", "m", "e", "t", "e", "r", "s">>
      [] p.tag = "PollSCMJob" ->
            lit_job \o lit_slash \o FmtName(p.name)
            \o <<"/", "p", "o", "l", "l", "i", "n", "g">>
      [] p.tag = "JobEnable" ->
            lit_job \o lit_slash \o FmtName(p.name) \o <<"/", "e", "n", "a", "b", "l", "e">>
      [] p.tag = "JobDisable" ->
            lit_job \o lit_slash \o FmtName(p.name)
            \o <<"/", "d", "i", "s", "a", "b", "l", "e">>
      [] p.tag = "Build" ->
            IF p.configuration.tag = "None"
            THEN lit_job \o lit_slash \o FmtName(p.job_name)
                 \o lit_slash \o FmtBuildNumber(p.number)
            ELSE lit_job \o lit_slash \o FmtName(p.job_name)
                 \o lit_slash \o FmtName(p.configuration.v)
                 \o lit_slash \o FmtBuildNumber(p.number)
      [] p.tag = "ConsoleText" -> ConsoleText_fmt(p)
      [] p.tag = "ConfigXML" ->
            IF p.folder_name.tag = "None"
            THEN lit_job \o lit_slash \o FmtName(p.job_name) \o lit_config_xml
            ELSE lit_job \o lit_slash \o FmtName(p.folder_name.v)
                 \o lit_job \o lit_slash \o FmtName(p.job_name) \o lit_config_xml
      [] p.tag = "Queue" -> lit_queue
      [] p.tag = "QueueItem" -> lit_queue \o lit_item \o lit_slash \o FmtI32(p.id)
      [] p.tag = "MavenArtifactRecord" ->
            IF p.configuration.tag = "None"
            THEN lit_job \o lit_slash \o FmtName(p.job_name)
                 \o lit_slash \o FmtBuildNumber(p.number) \o lit_mavenArtifacts
            ELSE lit_job \o lit_slash \o FmtName(p.job_name)
                 \o lit_slash \o FmtName(p.configuration.v)
                 \o lit_slash \o FmtBuildNumber(p.number) \o lit_mavenArtifacts
      [] p.tag = "InFolder" ->
            lit_job \o lit_slash \o FmtName(p.folder_name) \o Display(p.path)
      [] p.tag = "Computers" ->
            <<"/", "c", "o", "m", "p", "u", "t", "e", "r", "/", "a", "p", "i",
              "/", "j", "s", "o", "n">>
      [] p.tag = "Computer" ->
            <<"/", "c", "o", "m", "p", "u", "t", "e", "r", "/">> \o FmtName(p.name)
            \o <<"/", "a", "p", "i", "/", "j", "s", "o", "n">>
      [] p.tag = "Raw" -> p.path
      [] p.tag = "CrumbIssuer" ->
            <<"/", "c", "r", "u", "m", "b", "I", "s", "s", "u", "e", "r">>

(***************************************************************************)
(* Jenkins::url_to_path (path.rs:205-290).  self is the client record; its *)
(* url field is the configured base URL.  The index slashes[1] of the      *)
(* match scrutinee is out of bounds when the path holds fewer than two     *)
(* '/', and each .parse().unwrap() fails on a non-number: both end the     *)
(* call in a panic.                                                        *)
(***************************************************************************)
\* path.len() - 1 as the end of a slice (path.rs:219, 222, 226, 246, 263,
\* 286): the byte offset falls inside the last character when that character
\* takes more than one byte, and the slice panics
SplitsLastChar(p) == Len(Utf8Bytes(p[Len(p)])) > 1

\* the numeric probe of the ("/job", 4) arm (path.rs:226-240)
JobOrBuild(p, sl) ==
    LET last_part == Slice(p, sl[3] + 1, Len(p) - 1)
        number == ParseU32(last_part)
    IN IF SplitsLastChar(p) THEN Panic
       ELSE IF number.ok
       THEN Build(UrlEncodedName(Slice(p, 5, sl[3])), Number(number.v), None)
       ELSE Job(UrlEncodedName(Slice(p, 5, sl[3])), Some(UrlEncodedName(last_part)))

\* the MavenArtifactRecord branch of the ("/job", 5) arm (path.rs:242-249)
MavenNoConfig(p, sl) ==
    LET number == ParseU32(Slice(p, sl[4] + 1, Len(p) - 1))
    IN IF SplitsLastChar(p) THEN Panic
       ELSE IF number.ok
       THEN MavenArtifactRecord(UrlEncodedName(Slice(p, 5, sl[3])), Number(number.v), None)
       ELSE Panic

\* mutant of BuildWithConfig: the configuration segment is dropped
BuildWithConfig_NoConfig(p, sl) ==
    LET number == ParseU32(Slice(p, sl[4] + 1, Len(p) - 1))
    IN IF SplitsLastChar(p) THEN Panic
       ELSE IF number.ok
       THEN Build(UrlEncodedName(Slice(p, 5, sl[3])), Number(number.v), None)
       ELSE Panic

\* the last branch of the ("/job", 5) arm (path.rs:255-265)
BuildWithConfig(p, sl) ==
    LET number == ParseU32(Slice(p, sl[4] + 1, Len(p) - 1))
    IN IF SplitsLastChar(p) THEN Panic
       ELSE IF number.ok
       THEN Build(UrlEncodedName(Slice(p, 5, sl[3])), Number(number.v),
                  Some(UrlEncodedName(Slice(p, sl[3] + 1, sl[4]))))
       ELSE Panic

\* the last branch of the ("/job", 6) arm (path.rs:273-283)
MavenWithConfig(p, sl) ==
    LET number == ParseU32(Slice(p, sl[4] + 1, sl[5]))
    IN IF number.ok
       THEN MavenArtifactRecord(UrlEncodedName(Slice(p, 5, sl[3])), Number(number.v),
                                Some(UrlEncodedName(Slice(p, sl[3] + 1, sl[4]))))
       ELSE Panic

\* mutant of QueueItemOf: a malformed id defaults to 0
QueueItemOf_ZeroOnError(p, sl) ==
    LET id == ParseI32(Slice(p, sl[3] + 1, Len(p) - 1))
    IN IF SplitsLastChar(p) THEN Panic
       ELSE IF id.ok THEN QueueItem(id.v)
       ELSE QueueItem([neg |-> FALSE, mag |-> Zero32])

\* the ("/queue", 4) arm (path.rs:285-287)
QueueItemOf(p, sl) ==
    LET id == ParseI32(Slice(p, sl[3] + 1, Len(p) - 1))
    IN IF SplitsLastChar(p) THEN Panic
       ELSE IF id.ok THEN QueueItem(id.v)
       ELSE Panic

\* mutant of StripBase: the base URL is never stripped
StripBase_Never(self, url) == url

\* the prefix strip (path.rs:206-210)
StripBase(self, url) ==
    IF starts_with(url, self.url) THEN SliceFrom(url, Len(self.url)) ELSE url

\* the folder test of the ("/job", 5) and ("/job", 6) arms (path.rs:250, 268)
IsFolderSegment(p, sl) == Slice(p, sl[3], sl[4]) = lit_job

\* the maven test of the ("/job", 5) arm (path.rs:242)
IsMavenSuffix(p, sl) == Slice(p, sl[4], sl[5]) = lit_mavenArtifacts

\* mutant of WrapInFolder: the folder level is dropped
WrapInFolder_DropFolder(p, sl, inner) == inner

\* the folder wrapper around the recursive call (path.rs:251-254, 269-272)
WrapInFolder(p, sl, inner) ==
    IF inner.tag = "Panic" THEN Panic
    ELSE InFolder(UrlEncodedName(Slice(p, 5, sl[3])), inner)

\* sl is 1-based here: sl[k + 1] is the code's slashes[k]
RECURSIVE url_to_path(_, _)
url_to_path(self, url) ==
    LET p == StripBase(self, url)
        sl == Slashes(p)
        n == Len(sl)
    IN IF n < 2 THEN Panic
       ELSE LET head == Slice(p, 0, sl[2])
            IN CASE head = lit_view /\ n = 3 ->
                      IF SplitsLastChar(p) THEN Panic
                      ELSE View(UrlEncodedName(Slice(p, 6, Len(p) - 1)))
                 [] head = lit_job /\ n = 3 ->
                      IF SplitsLastChar(p) THEN Panic
                      ELSE Job(UrlEncodedName(Slice(p, 5, Len(p) - 1)), None)
                 [] head = lit_job /\ n = 4 -> JobOrBuild(p, sl)
                 [] head = lit_job /\ n = 5 ->
                      IF IsMavenSuffix(p, sl) THEN MavenNoConfig(p, sl)
                      ELSE IF IsFolderSegment(p, sl)
                      THEN WrapInFolder(p, sl, url_to_path(self, SliceFrom(p, sl[3])))
                      ELSE BuildWithConfig(p, sl)
                 [] head = lit_job /\ n = 6 ->
                      IF IsFolderSegment(p, sl)
                      THEN WrapInFolder(p, sl, url_to_path(self, SliceFrom(p, sl[3])))
                      ELSE MavenWithConfig(p, sl)
                 [] head = lit_queue /\ n = 4 -> QueueItemOf(p, sl)
                 [] OTHER -> Raw(p)

(***************************************************************************)
(* Inputs.  An input URL is an optional base-URL prefix, then up to        *)
(* MaxSegs segments each preceded by '/', then an optional trailing '/';   *)
(* or the same under another server's URL, up to MaxForeignSegs segments.  *)
(***************************************************************************)
seg_job == <<"j", "o", "b">>
seg_view == <<"v", "i", "e", "w">>
seg_queue == <<"q", "u", "e", "u", "e">>
seg_a == <<"a">>
seg_7 == <<"7">>
seg_maven == Tail(lit_mavenArtifacts)
seg_plus1 == <<"+", "1">>
seg_lead0 == <<"0", "0", "7">>
seg_u32max == <<"4", "2", "9", "4", "9", "6", "7", "2", "9", "5">>
seg_u32over == <<"4", "2", "9", "4", "9", "6", "7", "2", "9", "6">>
seg_minus3 == <<"-", "3">>
seg_empty == <<>>
seg_item == Tail(lit_item)

\* a server whose base URL is not the client's
OTHER_URL == <<"h", "t", "t", "p", ":", "/", "/", "o">>

FirstPool == {seg_job, seg_view, seg_queue, seg_a}
SegPool == {seg_job, seg_a, seg_7, seg_maven}
SecondPool == SegPool \cup {seg_item}
LastPool == SegPool \cup {seg_plus1, seg_lead0, seg_u32max, seg_u32over, seg_minus3, seg_empty}
Prefixes == {<<>>, JENKINS_URL}
Trails == {<<>>, lit_slash}

RECURSIVE JoinSegs(_)
JoinSegs(segs) ==
    IF segs = <<>> THEN <<>> ELSE lit_slash \o Head(segs) \o JoinSegs(Tail(segs))

SegLists ==
    {<<>>} \cup {<<f>> : f \in FirstPool}
    \cup {<<f, l>> : f \in FirstPool, l \in LastPool}
    \cup UNION {{<<f, s>> \o mid \o <<l>> :
                  f \in FirstPool, s \in SecondPool, mid \in [1..k -> SegPool], l \in LastPool}
               : k \in 0..(MaxSegs - 3)}

\* server-relative links and links under the client's base URL
OwnInputs == {pre \o JoinSegs(segs) \o t : pre \in Prefixes, segs \in SegLists, t \in Trails}

\* links under another server's URL
ForeignInputs ==
    {OTHER_URL \o JoinSegs(segs) \o t :
        segs \in {l \in SegLists : Len(l) <= MaxForeignSegs}, t \in Trails}

\* queue-item links, with ids at and beyond the limits of 32 bits
seg_i32max == <<"2", "1", "4", "7", "4", "8", "3", "6", "4", "7">>
seg_i32over == <<"2", "1", "4", "7", "4", "8", "3", "6", "4", "8">>
QueueIdTexts ==
    {seg_i32max, seg_i32over, <<"-">> \o seg_i32over, <<"-">> \o seg_u32max,
     <<"-", "0">>, <<"-">>, <<"+">>, <<"7", "a">>, <<"+", "-", "3">>}
QueueItemUrl(id) == JoinSegs(<<seg_queue, seg_item, id>>) \o lit_slash
QueueInputs == {pre \o QueueItemUrl(id) : pre \in Prefixes, id \in QueueIdTexts}

\* view and job links whose name holds percent-encoded text, a space, a '?'
seg_pct == <<"a", "%", "2", "F", "b">>
seg_space == <<"a", " ", "b">>
seg_query == <<"a", "?", "b", "=", "1">>
NameInputs ==
    {pre \o JoinSegs(<<f, n>>) \o lit_slash :
        pre \in Prefixes, f \in {seg_view, seg_job}, n \in {seg_pct, seg_space, seg_query}}

\* links with a two-byte character: as the last character of the link, for
\* every arm that slices up to path.len() - 1, and inside a name
seg_e_acute == <<"é">>
Utf8Inputs ==
    {pre \o JoinSegs(segs) :
        pre \in Prefixes,
        segs \in {<<seg_view, seg_a, seg_e_acute>>, <<seg_job, seg_a, seg_e_acute>>,
                  <<seg_job, seg_a, seg_a, seg_e_acute>>,
                  <<seg_job, seg_a, seg_a, seg_7, seg_e_acute>>,
                  <<seg_job, seg_a, seg_7, seg_maven, seg_e_acute>>,
                  <<seg_queue, seg_item, seg_7, seg_e_acute>>}}
    \cup {pre \o JoinSegs(segs) \o lit_slash :
            pre \in Prefixes,
            segs \in {<<seg_view, seg_e_acute>>, <<seg_job, seg_e_acute>>,
                      <<seg_job, seg_e_acute, seg_7>>,
                      <<seg_job, seg_a, seg_e_acute, seg_7>>}}

Inputs == OwnInputs \cup ForeignInputs \cup QueueInputs \cup NameInputs \cup Utf8Inputs

(***************************************************************************)
(* The state machine: a link is parsed, the Path is rendered for the       *)
(* request, and the rendered string (as is, or with the trailing '/' the   *)
(* server's links carry) is parsed again.                                  *)
(***************************************************************************)
Unset == [tag |-> "Unset"]

\* no operation of the client called, no tree query under construction
NoCall ==
    /\ op = Unset
    /\ pending = Unset
    /\ requests = <<>>
    /\ outcome = Unset
    /\ response = Unset
    /\ tree = Unset
    /\ appended = <<>>
    /\ query = <<>>

\* JenkinsBuilder::new(url).build() of the tests: CSRF enabled, depth 1
NewClient(url) == [url |-> url, csrf_enabled |-> TRUE, depth |-> 1]

Init ==
    /\ jenkins = NewClient(JENKINS_URL)
    /\ input \in Inputs
    /\ path = Unset
    /\ rendered = <<>>
    /\ fed = <<>>
    /\ reparsed = Unset
    /\ pc = "input"
    /\ NoCall

Parse ==
    /\ pc = "input"
    /\ path' = url_to_path(jenkins, input)
    /\ pc' = "parsed"
    /\ UNCHANGED <<jenkins, input, rendered, fed, reparsed>>
    /\ UNCHANGED <<clientVars, treeVars>>

Render ==
    /\ pc = "parsed"
    /\ path.tag # "Panic"
    /\ rendered' = Display(path)
    /\ pc' = "rendered"
    /\ UNCHANGED <<jenkins, input, path, fed, reparsed>>
    /\ UNCHANGED <<clientVars, treeVars>>

Reparse ==
    /\ pc = "rendered"
    /\ fed' = rendered
    /\ reparsed' = url_to_path(jenkins, rendered)
    /\ pc' = "reparsed"
    /\ UNCHANGED <<jenkins, input, path, rendered>>
    /\ UNCHANGED <<clientVars, treeVars>>

ReparseSlash ==
    /\ pc = "rendered"
    /\ fed' = rendered \o lit_slash
    /\ reparsed' = url_to_path(jenkins, rendered \o lit_slash)
    /\ pc' = "reparsed"
    /\ UNCHANGED <<jenkins, input, path, rendered>>
    /\ UNCHANGED <<clientVars, treeVars>>

Next == Parse \/ Render \/ Reparse \/ ReparseSlash

Spec == Init /\ [][Next]_vars

(***************************************************************************)
(* Nested-folder links /job/F1/.../job/Fk/job/J/ and .../job/J/N/,         *)
(* 1 <= k <= MaxDepth, as the server emits them for jobs inside folders.   *)
(***************************************************************************)
FolderNames == {seg_a, seg_job}
JobNames == {seg_a, seg_7, seg_job}
BuildTexts == {seg_7, seg_u32max}

RECURSIVE FolderPrefix(_)
FolderPrefix(fs) ==
    IF fs = <<>> THEN <<>> ELSE lit_job \o lit_slash \o Head(fs) \o FolderPrefix(Tail(fs))

FolderJobUrl(fs, j) == FolderPrefix(fs) \o lit_job \o lit_slash \o j \o lit_slash
FolderBuildUrl(fs, j, n) == FolderJobUrl(fs, j) \o n \o lit_slash

FolderLists == UNION {[1..k -> FolderNames] : k \in 1..MaxDepth}

FolderInputs ==
    {FolderJobUrl(fs, j) : fs \in FolderLists, j \in JobNames}
    \cup {FolderBuildUrl(fs, j, n) : fs \in FolderLists, j \in JobNames, n \in BuildTexts}

InitFolder ==
    /\ jenkins = NewClient(JENKINS_URL)
    /\ input \in FolderInputs
    /\ path = Unset
    /\ rendered = <<>>
    /\ fed = <<>>
    /\ reparsed = Unset
    /\ pc = "input"
    /\ NoCall

SpecFolder == InitFolder /\ [][Next]_vars

(***************************************************************************)
(* Path values a caller can construct (any variant but Raw), rendered and  *)
(* parsed back.                                                            *)
(***************************************************************************)
Names ==
    {UrlEncodedName(seg_a), UrlEncodedName(seg_job), UrlEncodedName(seg_7),
     UrlEncodedName(seg_maven), UrlEncodedName(<<"a", "/">>), PlainName(seg_a)}
OptNames == {None} \cup {Some(n) : n \in Names}
BuildNumbers ==
    {Number([hi |-> 0, lo |-> 7]), Number(U32Max), [tag |-> "LastBuild"],
     UnknownAlias(seg_a)}
QueueIds ==
    {[neg |-> FALSE, mag |-> Zero32], [neg |-> TRUE, mag |-> [hi |-> 0, lo |-> 3]],
     [neg |-> FALSE, mag |-> I32Max], [neg |-> TRUE, mag |-> I32MinMagnitude]}

FlatPaths ==
    {Home, Queue, Computers, CrumbIssuer}
    \cup {View(n) : n \in Names}
    \cup {AddJobToView(j, v) : j \in Names, v \in Names}
    \cup {RemoveJobFromView(j, v) : j \in Names, v \in Names}
    \cup {Job(n, c) : n \in Names, c \in OptNames}
    \cup {BuildJob(n) : n \in Names}
    \cup {BuildJobWithParameters(n) : n \in Names}
    \cup {PollSCMJob(n) : n \in Names}
    \cup {JobEnable(n) : n \in Names}
    \cup {JobDisable(n) : n \in Names}
    \cup {Build(j, b, c) : j \in Names, b \in BuildNumbers, c \in OptNames}
    \cup {ConsoleText(j, b, c, f) :
            j \in Names, b \in BuildNumbers, c \in OptNames, f \in OptNames}
    \cup {ConfigXML(j, f) : j \in Names, f \in OptNames}
    \cup {QueueItem(id) : id \in QueueIds}
    \cup {MavenArtifactRecord(j, b, c) : j \in Names, b \in BuildNumbers, c \in OptNames}
    \cup {Computer(n) : n \in Names}

RECURSIVE NestedPaths(_)
NestedPaths(d) ==
    IF d = 0 THEN FlatPaths
    ELSE LET inner == NestedPaths(d - 1)
         IN inner \cup {InFolder(f, q) : f \in Names, q \in inner}

ConstructiblePaths == NestedPaths(MaxNest)

\* values at the edges: Raw paths, empty names, names and aliases ending in '/'
name_a_slash == <<"a", "/">>
EdgePaths ==
    {Raw(<<>>), Raw(JoinSegs(<<seg_a>>)), Raw(JoinSegs(<<seg_a>>) \o lit_slash),
     View(UrlEncodedName(<<>>)), View(PlainName(<<>>)), View(PlainName(name_a_slash)),
     Job(PlainName(seg_a), Some(PlainName(name_a_slash))),
     Job(UrlEncodedName(seg_a), Some(UrlEncodedName(<<>>))),
     Build(UrlEncodedName(seg_a), UnknownAlias(name_a_slash), None),
     Build(UrlEncodedName(seg_a), UnknownAlias(<<>>), Some(UrlEncodedName(seg_a))),
     AddJobToView(PlainName(name_a_slash), PlainName(seg_a)),
     RemoveJobFromView(UrlEncodedName(<<>>), PlainName(seg_a)),
     RemoveJobFromView(UrlEncodedName(name_a_slash), PlainName(seg_a)),
     InFolder(UrlEncodedName(<<>>), Home),
     InFolder(UrlEncodedName(seg_a), Raw(<<>>)),
     InFolder(UrlEncodedName(seg_a), Raw(lit_slash)),
     InFolder(PlainName(name_a_slash), Home),
     View(PlainName(seg_query)), View(PlainName(seg_e_acute)),
     View(UrlEncodedName(seg_e_acute)),
     Job(PlainName(<<"a", "&", "b">>), Some(PlainName(<<"a", "#", "b">>))),
     Build(PlainName(<<"a", "é", "?">>), Number([hi |-> 0, lo |-> 7]), None),
     Computer(PlainName(<<"[", "a", "]", "\"", "\\", "\t", "\n">>))}

InitPath ==
    /\ jenkins = NewClient(JENKINS_URL)
    /\ input = <<>>
    /\ path \in ConstructiblePaths \cup EdgePaths
    /\ rendered = <<>>
    /\ fed = <<>>
    /\ reparsed = Unset
    /\ pc = "parsed"
    /\ NoCall

NextPath == Render \/ Reparse \/ ReparseSlash

SpecPath == InitPath /\ [][NextPath]_vars

(***************************************************************************)
(* The tree query (tree.rs): TreeQueryParam, its Display, and TreeBuilder. *)
(***************************************************************************)
TreeQueryParam(keyname, subkeys, range) ==
    [keyname |-> keyname, subkeys |-> subkeys, range |-> range]

\* std::ops::Range<u32>, its bounds kept as limbs
Range(start, end) ==
    [start |-> [hi |-> 0, lo |-> start], end |-> [hi |-> 0, lo |-> end]]

\* .collect::<Vec<_>>().join(sep)
RECURSIVE Join(_, _)
Join(strs, sep) ==
    IF strs = <<>> THEN <<>>
    ELSE IF Len(strs) = 1 THEN strs[1]
    ELSE strs[1] \o sep \o Join(Tail(strs), sep)

\* "{{{},{}}}" of the range arms
FmtRange(range) == <<"{">> \o FmtU32(range.start) \o <<",">> \o FmtU32(range.end) \o <<"}">>

\* impl Display for TreeQueryParam (tree.rs:23-78)
RECURSIVE TreeQueryParam_Display(_)
TreeQueryParam_Display(t) ==
    LET keyname == t.keyname
        n == Len(t.subkeys)
        range == t.range
        joined == Join([i \in 1..n |-> TreeQueryParam_Display(t.subkeys[i])], <<",">>)
    IN CASE keyname.tag = "Some" /\ n = 0 /\ range.tag = "None" -> keyname.v
         [] keyname.tag = "Some" /\ n = 0 /\ range.tag = "Some" ->
               keyname.v \o FmtRange(range.v)
         [] keyname.tag = "Some" /\ n # 0 /\ range.tag = "None" ->
               keyname.v \o <<"[">> \o joined \o <<"]">>
         [] keyname.tag = "Some" /\ n # 0 /\ range.tag = "Some" ->
               keyname.v \o <<"[">> \o joined \o <<"]">> \o FmtRange(range.v)
         [] keyname.tag = "None" /\ range.tag = "None" -> joined
         [] keyname.tag = "None" /\ range.tag = "Some" -> joined \o FmtRange(range.v)

\* TreeBuilder::new (tree.rs:97-105)
TreeBuilder_new == TreeQueryParam(None, <<>>, None)

\* TreeBuilder::object (tree.rs:112-120)
TreeBuilder_object(name) == TreeQueryParam(Some(name), <<>>, None)

\* impl From<&str> for TreeQueryParam (tree.rs:140-148)
TreeQueryParam_from(value) == TreeQueryParam(Some(value), <<>>, None)

\* mutant of with_field: the subfield is put in front of the others
with_field_Prepend(self, subfield) ==
    [self EXCEPT !.subkeys = <<subfield>> \o self.subkeys]

\* TreeBuilder::with_field (tree.rs:107-110)
with_field(self, subfield) ==
    [self EXCEPT !.subkeys = Append(self.subkeys, subfield)]

\* TreeBuilder::with_subfield (tree.rs:122-124)
with_subfield(self, subfield) == with_field(self, subfield)

\* mutant of with_range: setting the range forgets the subfields
with_range_DropsChildren(self, range) ==
    [self EXCEPT !.range = Some(range), !.subkeys = <<>>]

\* TreeBuilder::with_range (tree.rs:126-129)
with_range(self, range) == [self EXCEPT !.range = Some(range)]

\* field names of the queries
key_url == <<"u", "r", "l">>
key_result == <<"r", "e", "s", "u", "l", "t">>
key_causes == <<"c", "a", "u", "s", "e", "s">>
key_builds == <<"b", "u", "i", "l", "d", "s">>
key_actions == <<"a", "c", "t", "i", "o", "n", "s">>

MaxFields == 3
MaxRangeEnd == 2

FieldNames == {key_url, key_result, key_causes}
ObjectNames == {key_builds, key_actions}
Ranges == {Range(s, e) : s \in {0, MaxRangeEnd}, e \in {1, MaxRangeEnd}}

\* what a caller passes to with_field: a field name, or a builder of one level
SubFields ==
    {TreeQueryParam_from(k) : k \in FieldNames}
    \cup {with_subfield(TreeBuilder_object(key_actions), TreeQueryParam_from(key_causes)),
          with_subfield(TreeBuilder_object(key_builds), TreeQueryParam_from(key_url)),
          with_range(with_subfield(TreeBuilder_object(key_builds),
                                   TreeQueryParam_from(key_result)),
                     Range(0, MaxRangeEnd)),
          with_subfield(with_subfield(TreeBuilder_object(key_actions),
                                      TreeQueryParam_from(key_url)),
                        TreeQueryParam_from(key_causes))}

\* TreeBuilder::new() or TreeBuilder::object(name)
InitTree ==
    /\ jenkins = NewClient(JENKINS_URL)
    /\ input = <<>>
    /\ path = Unset
    /\ rendered = <<>>
    /\ fed = <<>>
    /\ reparsed = Unset
    /\ pc = "building"
    /\ op = Unset
    /\ pending = Unset
    /\ requests = <<>>
    /\ outcome = Unset
    /\ response = Unset
    /\ tree \in {TreeBuilder_new} \cup {TreeBuilder_object(o) : o \in ObjectNames}
    /\ appended = <<>>
    /\ query = <<>>

\* builder.with_field(subfield) / builder.with_subfield(subfield); appended
\* records the renderings of the subfields in the order of the calls
WithField ==
    /\ pc = "building"
    /\ Len(tree.subkeys) < MaxFields
    /\ \E subfield \in SubFields :
        /\ tree' = with_field(tree, subfield)
        /\ appended' = Append(appended, TreeQueryParam_Display(subfield))
    /\ UNCHANGED <<jenkins, input, path, rendered, fed, reparsed, pc, clientVars, query>>

\* builder.with_range(range)
WithRange ==
    /\ pc = "building"
    /\ \E range \in Ranges : tree' = with_range(tree, range)
    /\ UNCHANGED <<jenkins, input, path, rendered, fed, reparsed, pc, clientVars,
                   appended, query>>

\* builder.build(), the tree then serialized as the query parameter
\* (impl Serialize: serialize_str(&self.to_string()), tree.rs:15-21)
BuildTree ==
    /\ pc = "building"
    /\ query' = TreeQueryParam_Display(tree)
    /\ pc' = "built"
    /\ UNCHANGED <<jenkins, input, path, rendered, fed, reparsed, clientVars,
                   tree, appended>>

NextTree == WithField \/ WithRange \/ BuildTree

SpecTree == InitTree /\ [][NextTree]_vars

(***************************************************************************)
(* The client's requests (client_internals/mod.rs, csrf.rs).  A call       *)
(* returns the requests it sent, in order, and its outcome; the server's   *)
(* answer to each request (success, or a failure of the transport or of    *)
(* the status) is an input of the call.                                    *)
(***************************************************************************)
lit_api_json == <<"/", "a", "p", "i", "/", "j", "s", "o", "n">>

\* JenkinsBuilder::with_depth (builder.rs:84-87)
with_depth(self, depth) == [self EXCEPT !.depth = depth]

\* JenkinsBuilder::disable_csrf (builder.rs:77-80)
disable_csrf(self) == [self EXCEPT !.csrf_enabled = FALSE]

\* Jenkins::url_api_json (mod.rs:77-79)
url_api_json(self, endpoint) == self.url \o endpoint \o lit_api_json

\* Jenkins::url (mod.rs:81-83)
url_endpoint(self, endpoint) == self.url \o endpoint

\* self.depth.to_string() of a u8
FmtU8(depth) == FmtU32([hi |-> 0, lo |-> depth])

\* outcomes of a call
Ok == [tag |-> "Ok"]
RequestError == [tag |-> "Request"]
CrumbError == [tag |-> "Crumb"]
InvalidUrl(url, expected) == [tag |-> "InvalidUrl", url |-> url, expected |-> expected]

\* An async fn runs from one .await to the next.  What a call has in hand
\* when it first suspends is a record: the request it built, and for a POST
\* the crumb request that add_csrf_to_request sends before it (if any).  A
\* call that ends before any .await is Ready with its outcome.
Ready(result) == [kind |-> "Ready", outcome |-> result]

\* a call that panics before any request
Panicked == Ready(Panic)

\* Jenkins::get_with_params (mod.rs:110-121) up to send; qps is the
\* serialized query
get_with_params(self, p, qps) ==
    [kind |-> "Get",
     request |-> [method |-> "GET", path |-> p, url |-> url_api_json(self, Display(p)),
                  query |-> qps, crumb |-> FALSE]]

\* Jenkins::get (mod.rs:105-108)
get(self, p) == get_with_params(self, p, << <<"depth", FmtU8(self.depth)>> >>)

\* mutant of add_csrf_to_request: the crumb is asked for whatever the client's
\* setting
add_csrf_to_request_Always(self) == Some(get(self, CrumbIssuer).request)

\* Jenkins::add_csrf_to_request and get_csrf (csrf.rs:14-38): the request for
\* the crumb, when the client has CSRF protection enabled
add_csrf_to_request(self) ==
    IF self.csrf_enabled THEN Some(get(self, CrumbIssuer).request) ELSE None

\* Jenkins::post (mod.rs:123-130) up to send
post(self, p) ==
    [kind |-> "Post",
     csrf |-> add_csrf_to_request(self),
     request |-> [method |-> "POST", path |-> p, url |-> url_endpoint(self, Display(p)),
                  query |-> <<>>, crumb |-> self.csrf_enabled]]

(***************************************************************************)
(* Jenkins::post_with_body (mod.rs:132-202) and the server's answer.       *)
(***************************************************************************)
\* StatusCode::INTERNAL_SERVER_ERROR
INTERNAL_SERVER_ERROR == 500

\* a response: its status, its body, and whether the body can be read
Response(status, body, readable) ==
    [status |-> status, body |-> body, readable |-> readable]

\* the error of error_for_status for a 4xx or 5xx status
StatusError(status) == [tag |-> "Request", status |-> status]
IllegalState(message) == [tag |-> "IllegalState", message |-> message]
IllegalArgument(message) == [tag |-> "IllegalArgument", message |-> message]

\* Response::error_for_status (mod.rs:97-103): 4xx and 5xx are errors
error_for_status(resp) ==
    IF resp.status >= 400 /\ resp.status < 600 THEN StatusError(resp.status) ELSE Ok

\* the '.' of a regex: any character but the line feed
IsDot(c) == c # "\n"

lit_java == <<"j", "a", "v", "a">>
lit_lang == <<"l", "a", "n", "g">>
lit_IllegalStateException ==
    <<"I", "l", "l", "e", "g", "a", "l", "S", "t", "a", "t", "e",
      "E", "x", "c", "e", "p", "t", "i", "o", "n">>
lit_IllegalArgumentException ==
    <<"I", "l", "l", "e", "g", "a", "l", "A", "r", "g", "u", "m", "e", "n", "t",
      "E", "x", "c", "e", "p", "t", "i", "o", "n">>

\* the end (0-based, exclusive) of the longest run of letters from offset a
RECURSIVE LetterRun(_, _)
LetterRun(s, a) ==
    IF a < Len(s) /\ s[a + 1] \in Letters THEN LetterRun(s, a + 1) ELSE a

\* the end (0-based, exclusive) of the line that holds offset a
RECURSIVE LineEnd(_, _)
LineEnd(s, a) ==
    IF a < Len(s) /\ IsDot(s[a + 1]) THEN LineEnd(s, a + 1) ELSE a

\* r"java.lang.([a-zA-Z]+): (.*)" matched at offset a: 'java', any character,
\* 'lang', any character, the longest run of letters (a shorter one is not
\* followed by ':'), ': ', and the rest of the line
MatchesAt(s, a) ==
    LET e == LetterRun(s, a + 10)
    IN /\ a + 10 < Len(s)
       /\ Slice(s, a, a + 4) = lit_java
       /\ IsDot(s[a + 5])
       /\ Slice(s, a + 5, a + 9) = lit_lang
       /\ IsDot(s[a + 10])
       /\ e > a + 10
       /\ e + 2 <= Len(s)
       /\ s[e + 1] = ":"
       /\ s[e + 2] = " "

\* mutant of Regex_captures: the last match of the body is taken
Regex_captures_Last(s) ==
    LET starts == {a \in 0..Len(s) : MatchesAt(s, a)}
    IN IF starts = {} THEN None
       ELSE LET a == CHOOSE x \in starts : \A y \in starts : y <= x
                e == LetterRun(s, a + 10)
            IN Some([class |-> Slice(s, a + 10, e),
                     message |-> Slice(s, e + 2, LineEnd(s, e + 2))])

\* re.captures(&body) (mod.rs:159-160): the leftmost match, its groups 1 and 2
Regex_captures(s) ==
    LET starts == {a \in 0..Len(s) : MatchesAt(s, a)}
    IN IF starts = {} THEN None
       ELSE LET a == CHOOSE x \in starts : \A y \in starts : x <= y
                e == LetterRun(s, a + 10)
            IN Some([class |-> Slice(s, a + 10, e),
                     message |-> Slice(s, e + 2, LineEnd(s, e + 2))])

\* what post_with_body makes of the response of send (mod.rs:150-201)
ResponseResult(resp) ==
    IF resp.status = INTERNAL_SERVER_ERROR
    THEN IF ~resp.readable THEN RequestError
         ELSE LET captures == Regex_captures(resp.body)
              IN CASE captures.tag = "Some" /\ captures.v.class = lit_IllegalStateException ->
                        IllegalState(captures.v.message)
                   [] captures.tag = "Some" /\ captures.v.class = lit_IllegalArgumentException ->
                        IllegalArgument(captures.v.message)
                   [] OTHER -> StatusError(resp.status)
    ELSE error_for_status(resp)

\* Jenkins::post_with_body (mod.rs:132-148) up to send
post_with_body(self, p, qps) ==
    [kind |-> "PostWithBody",
     csrf |-> add_csrf_to_request(self),
     request |-> [method |-> "POST", path |-> p, url |-> url_endpoint(self, Display(p)),
                  query |-> qps, crumb |-> self.csrf_enabled]]

(***************************************************************************)
(* Advanced queries (mod.rs:44-74) and the public Path (client.rs:18-115). *)
(***************************************************************************)
Depth(depth) == [tag |-> "Depth", depth |-> depth]
Tree(t) == [tag |-> "Tree", tree |-> t]

\* impl From<AdvancedQuery> for InternalAdvancedQueryParams (mod.rs:61-74)
InternalAdvancedQueryParams_from(q) ==
    IF q.tag = "Depth"
    THEN [depth |-> Some(q.depth), tree |-> None]
    ELSE [depth |-> None, tree |-> Some(q.tree)]

\* .query(&qps) for an Option<InternalAdvancedQueryParams>: the fields in
\* their order, a None (field or whole value) writing no pair
SerializeQuery(qps) ==
    IF qps.tag = "None" THEN <<>>
    ELSE (IF qps.v.depth.tag = "Some" THEN << <<"depth", FmtU8(qps.v.depth.v)>> >> ELSE <<>>)
         \o (IF qps.v.tree.tag = "Some"
             THEN << <<"tree", TreeQueryParam_Display(qps.v.tree.v)>> >>
             ELSE <<>>)

\* parameters.into().map(InternalAdvancedQueryParams::from) (client.rs:181)
MapQuery(parameters) ==
    IF parameters.tag = "None" THEN None
    ELSE Some(InternalAdvancedQueryParams_from(parameters.v))

\* client::Path (client.rs:20-72): names and configurations are plain &str
PubHome == [tag |-> "Home"]
PubView(name) == [tag |-> "View", name |-> name]
PubJob(name, configuration) == [tag |-> "Job", name |-> name, configuration |-> configuration]
PubBuild(job_name, number, configuration) ==
    [tag |-> "Build", job_name |-> job_name, number |-> number,
     configuration |-> configuration]
PubQueue == [tag |-> "Queue"]
PubQueueItem(id) == [tag |-> "QueueItem", id |-> id]
PubMavenArtifactRecord(job_name, number, configuration) ==
    [tag |-> "MavenArtifactRecord", job_name |-> job_name, number |-> number,
     configuration |-> configuration]
PubComputers == [tag |-> "Computers"]
PubComputer(name) == [tag |-> "Computer", name |-> name]
PubRaw(p) == [tag |-> "Raw", path |-> p]

\* configuration.map(Name::UrlEncodedName)
MapUrlEncodedName(configuration) ==
    IF configuration.tag = "Some" THEN Some(UrlEncodedName(configuration.v)) ELSE None

\* impl From<Path> for PrivatePath (client.rs:74-115)
PrivatePath_from(value) ==
    CASE value.tag = "Home" -> Home
      [] value.tag = "View" -> View(UrlEncodedName(value.name))
      [] value.tag = "Job" ->
            Job(UrlEncodedName(value.name), MapUrlEncodedName(value.configuration))
      [] value.tag = "Build" ->
            Build(UrlEncodedName(value.job_name), value.number,
                  MapUrlEncodedName(value.configuration))
      [] value.tag = "Queue" -> Queue
      [] value.tag = "QueueItem" -> QueueItem(value.id)
      [] value.tag = "MavenArtifactRecord" ->
            MavenArtifactRecord(UrlEncodedName(value.job_name), value.number,
                                MapUrlEncodedName(value.configuration))
      [] value.tag = "Computers" -> Computers
      [] value.tag = "Computer" -> Computer(UrlEncodedName(value.name))
      [] value.tag = "Raw" -> Raw(value.path)

(***************************************************************************)
(* Operations that follow a stored link (build/common.rs, view.rs,         *)
(* queue.rs).                                                              *)
(***************************************************************************)
\* ShortBuild::get_full_build (common.rs:46-73)
ShortBuild_get_full_build(self, url) ==
    LET p == url_to_path(self, url)
    IN IF p = Panic THEN Panicked
       ELSE IF p.tag = "Build" THEN get(self, p)
       ELSE IF p.tag = "InFolder" /\ p.path.tag = "Build" THEN get(self, p)
       ELSE Ready(InvalidUrl(url, "Build"))

\* mutant of JobInFolder: the folder is put around a View
JobInFolder_View(folder_name, job_name, configuration) ==
    InFolder(folder_name, View(job_name))

\* the Path of the folder branch of Build::get_job (common.rs:229-235)
JobInFolder(folder_name, job_name, configuration) ==
    InFolder(folder_name, Job(job_name, configuration))

\* Build::get_job (common.rs:191-249)
Build_get_job(self, url) ==
    LET p == url_to_path(self, url)
    IN IF p = Panic THEN Panicked
       ELSE IF p.tag = "Build" THEN get(self, Job(p.job_name, p.configuration))
       ELSE IF p.tag = "InFolder" /\ p.path.tag = "Build"
       THEN get(self, JobInFolder(p.folder_name, p.path.job_name, p.path.configuration))
       ELSE Ready(InvalidUrl(url, "Build"))

\* mutant of Build_get_console: the folder of the link is not passed on
Build_get_console_NoFolder(self, url) ==
    LET p == url_to_path(self, url)
    IN IF p = Panic THEN Panicked
       ELSE IF p.tag = "Build"
       THEN get(self, ConsoleText(p.job_name, p.number, p.configuration, None))
       ELSE IF p.tag = "InFolder" /\ p.path.tag = "Build"
       THEN get(self, ConsoleText(p.path.job_name, p.path.number, p.path.configuration,
                                  None))
       ELSE Ready(InvalidUrl(url, "Build"))

\* Build::get_console (common.rs:252-309)
Build_get_console(self, url) ==
    LET p == url_to_path(self, url)
    IN IF p = Panic THEN Panicked
       ELSE IF p.tag = "Build"
       THEN get(self, ConsoleText(p.job_name, p.number, p.configuration, None))
       ELSE IF p.tag = "InFolder" /\ p.path.tag = "Build"
       THEN get(self, ConsoleText(p.path.job_name, p.path.number, p.path.configuration,
                                  Some(p.folder_name)))
       ELSE Ready(InvalidUrl(url, "Build"))

\* mutant of ShortView_get_full_view: the kind of the link is not tested
ShortView_get_full_view_Unchecked(self, url) ==
    LET p == url_to_path(self, url)
    IN IF p = Panic THEN Panicked ELSE get(self, p)

\* ShortView::get_full_view (view.rs:36-52)
ShortView_get_full_view(self, url) ==
    LET p == url_to_path(self, url)
    IN IF p = Panic THEN Panicked
       ELSE IF p.tag = "View" THEN get(self, p)
       ELSE Ready(InvalidUrl(url, "View"))

\* ListView::add_job (view.rs:142-166)
ListView_add_job(self, url, job_name) ==
    LET p == url_to_path(self, url)
    IN IF p = Panic THEN Panicked
       ELSE IF p.tag = "View"
       THEN post(self, AddJobToView(PlainName(job_name), p.name))
       ELSE Ready(InvalidUrl(url, "View"))

\* ListView::remove_job (view.rs:169-193)
ListView_remove_job(self, url, job_name) ==
    LET p == url_to_path(self, url)
    IN IF p = Panic THEN Panicked
       ELSE IF p.tag = "View"
       THEN post(self, RemoveJobFromView(PlainName(job_name), p.name))
       ELSE Ready(InvalidUrl(url, "View"))

\* ShortQueueItem::get_full_queue_item (queue.rs:28-47)
ShortQueueItem_get_full_queue_item(self, url) ==
    LET p == url_to_path(self, url)
    IN IF p = Panic THEN Panicked
       ELSE IF p.tag = "QueueItem" THEN get(self, p)
       ELSE Ready(InvalidUrl(url, "QueueItem"))

\* QueueItem::refresh_item (queue.rs:83-99)
QueueItem_refresh_item(self, url) ==
    LET p == url_to_path(self, url)
    IN IF p = Panic THEN Panicked
       ELSE IF p.tag = "QueueItem" THEN get(self, p)
       ELSE Ready(InvalidUrl(url, "QueueItem"))

(***************************************************************************)
(* The specification of the client: one call on a client, either an        *)
(* operation on a stored link or an operation given names by the caller.   *)
(***************************************************************************)
MaxLinkSegs == 3
MaxClientDepth == 2

\* stored links: short links of every shape, folder links, builds under a
\* configuration, queue items
LinkInputs ==
    {pre \o JoinSegs(segs) \o lit_slash :
        pre \in Prefixes, segs \in {l \in SegLists : Len(l) <= MaxLinkSegs}}
    \cup FolderInputs
    \cup {JENKINS_URL \o JoinSegs(<<seg_job, seg_a, b, c>>) \o lit_slash :
            b \in {seg_a, seg_job}, c \in {seg_7, seg_a, seg_maven}}
    \cup {JoinSegs(<<seg_job, seg_a, seg_job, x, y>>) \o lit_slash :
            x \in {seg_a, seg_maven}, y \in {seg_a, seg_maven, seg_lead0}}
    \cup QueueInputs
    \cup {OTHER_URL \o JoinSegs(<<seg_view, seg_a>>) \o lit_slash,
          JoinSegs(<<seg_view, seg_a>>)}
    \cup Utf8Inputs

\* names a caller gives: plain, and with characters a URL cannot hold as is
name_a_b == <<"a", " ", "b">>
name_slash == <<"a", "/", "b">>
name_pct == <<"a", "%", "2", "0", "b">>
name_query == <<"é", "?", "b", "=", "1", "&">>
CallerNames == {seg_a, name_a_b, name_slash, name_pct, name_query}
CallerOptNames == {None, Some(seg_a), Some(name_a_b)}

\* the paths a caller gives to get_object_as
PubPaths ==
    {PubHome, PubQueue, PubComputers}
    \cup {PubView(n) : n \in CallerNames}
    \cup {PubJob(n, c) : n \in CallerNames, c \in CallerOptNames}
    \cup {PubBuild(n, b, c) : n \in CallerNames, b \in BuildNumbers, c \in CallerOptNames}
    \cup {PubQueueItem(id) : id \in QueueIds}
    \cup {PubMavenArtifactRecord(n, Number([hi |-> 0, lo |-> 7]), c) :
            n \in CallerNames, c \in CallerOptNames}
    \cup {PubComputer(n) : n \in CallerNames}
    \cup {PubRaw(JoinSegs(<<seg_a>>) \o lit_slash)}

\* the parameters a caller gives to get_object_as
Parameters ==
    {None}
    \cup {Some(Depth(d)) : d \in 0..MaxClientDepth}
    \cup {Some(Tree(TreeQueryParam_from(key_url))),
          Some(Tree(with_subfield(TreeBuilder_object(key_builds),
                                  TreeQueryParam_from(key_url))))}

\* the names a public path holds, job or view or computer name first
PubNames(p) ==
    CASE p.tag \in {"View", "Computer"} -> <<p.name>>
      [] p.tag = "Job" ->
            <<p.name>> \o (IF p.configuration.tag = "Some" THEN <<p.configuration.v>> ELSE <<>>)
      [] p.tag \in {"Build", "MavenArtifactRecord"} ->
            <<p.job_name>>
            \o (IF p.configuration.tag = "Some" THEN <<p.configuration.v>> ELSE <<>>)
      [] OTHER -> <<>>

Clients ==
    {with_depth(NewClient(JENKINS_URL), d) : d \in 0..MaxClientDepth}
    \cup {disable_csrf(NewClient(JENKINS_URL))}

InitClient ==
    /\ jenkins \in Clients
    /\ input = <<>>
    /\ path = Unset
    /\ rendered = <<>>
    /\ fed = <<>>
    /\ reparsed = Unset
    /\ pc = "idle"
    /\ NoCall

\* the variables no step of a call in flight changes
callVars == <<jenkins, input, path, rendered, fed, reparsed, op, pending, treeVars>>

\* The first poll of a call: the function, the names and the advanced query
\* the caller gave, the stored link (if any), the Path the call works from.
\* The call runs to its first .await: it returns at once when it sends
\* nothing, and else hands its first request to the HTTP client (the crumb
\* request when there is one) and suspends in send (mod.rs:93).
CallWith(fn, names, parameters, url, p, call) ==
    /\ op' = [fn |-> fn, names |-> names, parameters |-> parameters]
    /\ input' = url
    /\ path' = p
    /\ pending' = call
    /\ IF call.kind = "Ready"
       THEN /\ requests' = <<>>
            /\ outcome' = call.outcome
            /\ pc' = "returned"
       ELSE IF call.kind \in {"Get", "GetLocation"}
       THEN /\ requests' = <<call.request>>
            /\ pc' = "sending"
            /\ UNCHANGED outcome
       ELSE IF call.csrf.tag = "Some"
       THEN /\ requests' = <<call.csrf.v>>
            /\ pc' = "crumb_sending"
            /\ UNCHANGED outcome
       ELSE /\ requests' = <<call.request>>
            /\ pc' = "sending"
            /\ UNCHANGED outcome
    /\ UNCHANGED <<jenkins, rendered, fed, reparsed, response, treeVars>>

\* a call of an operation that takes no advanced query
Call(fn, names, url, p, r) == CallWith(fn, names, None, url, p, r)

GetFullBuild ==
    /\ pc = "idle"
    /\ \E url \in LinkInputs :
           Call("ShortBuild::get_full_build", <<>>, url, url_to_path(jenkins, url),
                ShortBuild_get_full_build(jenkins, url))

BuildGetJob ==
    /\ pc = "idle"
    /\ \E url \in LinkInputs :
           Call("Build::get_job", <<>>, url, url_to_path(jenkins, url),
                Build_get_job(jenkins, url))

BuildGetConsole ==
    /\ pc = "idle"
    /\ \E url \in LinkInputs :
           Call("Build::get_console", <<>>, url, url_to_path(jenkins, url),
                Build_get_console(jenkins, url))

GetFullView ==
    /\ pc = "idle"
    /\ \E url \in LinkInputs :
           Call("ShortView::get_full_view", <<>>, url, url_to_path(jenkins, url),
                ShortView_get_full_view(jenkins, url))

ListViewAddJob ==
    /\ pc = "idle"
    /\ \E url \in LinkInputs, job_name \in CallerNames :
           Call("ListView::add_job", <<job_name>>, url, url_to_path(jenkins, url),
                ListView_add_job(jenkins, url, job_name))

ListViewRemoveJob ==
    /\ pc = "idle"
    /\ \E url \in LinkInputs, job_name \in CallerNames :
           Call("ListView::remove_job", <<job_name>>, url, url_to_path(jenkins, url),
                ListView_remove_job(jenkins, url, job_name))

GetFullQueueItem ==
    /\ pc = "idle"
    /\ \E url \in LinkInputs :
           Call("ShortQueueItem::get_full_queue_item", <<>>, url, url_to_path(jenkins, url),
                ShortQueueItem_get_full_queue_item(jenkins, url))

RefreshItem ==
    /\ pc = "idle"
    /\ \E url \in LinkInputs :
           Call("QueueItem::refresh_item", <<>>, url, url_to_path(jenkins, url),
                QueueItem_refresh_item(jenkins, url))

\* Jenkins::get_build (build/mod.rs:26-41)
GetBuild ==
    /\ pc = "idle"
    /\ \E job_name \in CallerNames, build_number \in BuildNumbers :
           LET p == Build(PlainName(job_name), build_number, None)
           IN Call("Jenkins::get_build", <<job_name>>, <<>>, p, get(jenkins, p))

\* Jenkins::get_view (view.rs:198-210)
GetView ==
    /\ pc = "idle"
    /\ \E view_name \in CallerNames :
           LET p == View(PlainName(view_name))
           IN Call("Jenkins::get_view", <<view_name>>, <<>>, p, get(jenkins, p))

\* Jenkins::add_job_to_view (view.rs:213-230)
AddJobToViewCall ==
    /\ pc = "idle"
    /\ \E view_name \in CallerNames, job_name \in CallerNames :
           LET p == AddJobToView(PlainName(job_name), PlainName(view_name))
           IN Call("Jenkins::add_job_to_view", <<view_name, job_name>>, <<>>, p,
                   post(jenkins, p))

\* Jenkins::remove_job_from_view (view.rs:233-250)
RemoveJobFromViewCall ==
    /\ pc = "idle"
    /\ \E view_name \in CallerNames, job_name \in CallerNames :
           LET p == AddJobToView(PlainName(job_name), PlainName(view_name))
           IN Call("Jenkins::remove_job_from_view", <<view_name, job_name>>, <<>>, p,
                   post(jenkins, p))

\* Jenkins::get_nodes (nodes/mod.rs:31-40)
GetNodes ==
    /\ pc = "idle"
    /\ Call("Jenkins::get_nodes", <<>>, <<>>, Computers, get(jenkins, Computers))

\* Jenkins::get_node (nodes/mod.rs:43-60)
GetNode ==
    /\ pc = "idle"
    /\ \E computer_name \in CallerNames :
           LET p == Computer(PlainName(computer_name))
           IN Call("Jenkins::get_node", <<computer_name>>, <<>>, p, get(jenkins, p))

\* Jenkins::get_master_node (nodes/mod.rs:63-74)
GetMasterNode ==
    /\ pc = "idle"
    /\ LET p == Computer(PlainName(<<"(", "m", "a", "s", "t", "e", "r", ")">>))
       IN Call("Jenkins::get_master_node", <<>>, <<>>, p, get(jenkins, p))

\* Jenkins::get_queue (queue.rs:112-114)
GetQueue ==
    /\ pc = "idle"
    /\ Call("Jenkins::get_queue", <<>>, <<>>, Queue, get(jenkins, Queue))

\* Jenkins::get_queue_item (queue.rs:117-119)
GetQueueItem ==
    /\ pc = "idle"
    /\ \E id \in QueueIds :
           LET p == QueueItem(id)
           IN Call("Jenkins::get_queue_item", <<>>, <<>>, p, get(jenkins, p))

\* Jenkins::get_object_as (client.rs:169-190)
GetObjectAs ==
    /\ pc = "idle"
    /\ \E object \in PubPaths, parameters \in Parameters :
           LET p == PrivatePath_from(object)
           IN CallWith("Jenkins::get_object_as", PubNames(object), parameters, <<>>, p,
                       get_with_params(jenkins, p, SerializeQuery(MapQuery(parameters))))

(***************************************************************************)
(* Operations on jobs (job.rs).  job.rs is written for an earlier form of  *)
(* the client: its calls block instead of being awaited, and its pattern   *)
(* Path::Job { name } names no configuration.  It is read here against the *)
(* client of mod.rs: get, post and get_with_params are the ones above, a   *)
(* call waits for its answer in the same states, and the pattern matches   *)
(* every Path::Job and takes its name; any other Path is answered with     *)
(* InvalidUrl naming the kind "Job".                                       *)
(***************************************************************************)
\* the call goes on to read the Location header of the response, not its body
ReadLocation(call) ==
    [call EXCEPT !.kind = IF call.kind = "Get" THEN "GetLocation" ELSE "PostLocation"]

\* qps of trigger_remotely and trigger_job_remotely (job.rs:214-218, 273-277)
TriggerQuery(token, cause) ==
    << <<"token", token>> >>
    \o (IF cause.tag = "Some" THEN << <<"cause", cause.v>> >> ELSE <<>>)

\* the text before the first line feed
RECURSIVE UpToLineFeed(_)
UpToLineFeed(s) ==
    IF s = <<>> \/ Head(s) = "\n" THEN <<>> ELSE <<Head(s)>> \o UpToLineFeed(Tail(s))

\* s.lines().next().unwrap() of a string that is not empty: the first line,
\* without its line ending (a line feed, or a carriage return and a line feed)
FirstLine(s) ==
    LET l == UpToLineFeed(s)
    IN IF Len(l) < Len(s) /\ l # <<>> /\ l[Len(l)] = "\r" THEN SubSeq(l, 1, Len(l) - 1)
       ELSE l

\* Ok(ShortQueueItem { url })
QueueItemLink(url) == [tag |-> "Ok", url |-> url]

\* the Location header of the response (job.rs:187-197, 221-231, 254-263,
\* 284-293): without it the call fails, an empty one has no first line and
\* the unwrap panics
LocationResult(location) ==
    IF location.tag = "None" THEN InvalidUrl(<<>>, "ShortQueueItem")
    ELSE IF location.v = <<>> THEN Panic
    ELSE QueueItemLink(FirstLine(location.v))

\* tokens and causes a caller gives, Location headers a server answers with
Tokens == {<<"t", "k">>}
Causes == {None, Some(<<"c", " ", "1">>)}
Locations ==
    {None, Some(<<>>), Some(JENKINS_URL \o QueueItemUrl(seg_7)),
     Some(QueueItemUrl(seg_7) \o <<"\n", "x">>),
     Some(QueueItemUrl(seg_7) \o <<"\r", "\n", "x">>)}

\* ShortJob::get_full_job (job.rs:59-69)
JobGetFullJob ==
    /\ pc = "idle"
    /\ \E url \in LinkInputs :
           LET p == url_to_path(jenkins, url)
           IN Call("ShortJob::get_full_job", <<>>, url, p,
                   IF p = Panic THEN Panicked
                   ELSE IF p.tag = "Job"
                   THEN get(jenkins, p)
                   ELSE Ready(InvalidUrl(url, "Job")))

\* Job::enable (job.rs:121-132)
JobEnableCall ==
    /\ pc = "idle"
    /\ \E url \in LinkInputs :
           LET p == url_to_path(jenkins, url)
           IN Call("Job::enable", <<>>, url, p,
                   IF p = Panic THEN Panicked
                   ELSE IF p.tag = "Job"
                   THEN post(jenkins, JobEnable(p.name))
                   ELSE Ready(InvalidUrl(url, "Job")))

\* Job::disable (job.rs:135-146)
JobDisableCall ==
    /\ pc = "idle"
    /\ \E url \in LinkInputs :
           LET p == url_to_path(jenkins, url)
           IN Call("Job::disable", <<>>, url, p,
                   IF p = Panic THEN Panicked
                   ELSE IF p.tag = "Job"
                   THEN post(jenkins, JobDisable(p.name))
                   ELSE Ready(InvalidUrl(url, "Job")))

\* Job::add_to_view (job.rs:149-163)
JobAddToView ==
    /\ pc = "idle"
    /\ \E url \in LinkInputs, view_name \in CallerNames :
           LET p == url_to_path(jenkins, url)
           IN Call("Job::add_to_view", <<view_name>>, url, p,
                   IF p = Panic THEN Panicked
                   ELSE IF p.tag = "Job"
                   THEN post(jenkins, AddJobToView(p.name, PlainName(view_name)))
                   ELSE Ready(InvalidUrl(url, "Job")))

\* Job::remove_from_view (job.rs:166-180)
JobRemoveFromView ==
    /\ pc = "idle"
    /\ \E url \in LinkInputs, view_name \in CallerNames :
           LET p == url_to_path(jenkins, url)
           IN Call("Job::remove_from_view", <<view_name>>, url, p,
                   IF p = Panic THEN Panicked
                   ELSE IF p.tag = "Job"
                   THEN post(jenkins, RemoveJobFromView(p.name, PlainName(view_name)))
                   ELSE Ready(InvalidUrl(url, "Job")))

\* Job::build (job.rs:183-203)
JobBuild ==
    /\ pc = "idle"
    /\ \E url \in LinkInputs :
           LET p == url_to_path(jenkins, url)
           IN Call("Job::build", <<>>, url, p,
                   IF p = Panic THEN Panicked
                   ELSE IF p.tag = "Job"
                   THEN ReadLocation(post(jenkins, BuildJob(p.name)))
                   ELSE Ready(InvalidUrl(url, "Job")))

\* Job::trigger_remotely (job.rs:206-237)
JobTriggerRemotely ==
    /\ pc = "idle"
    /\ \E url \in LinkInputs, token \in Tokens, cause \in Causes :
           LET p == url_to_path(jenkins, url)
           IN Call("Job::trigger_remotely", <<>>, url, p,
                   IF p = Panic THEN Panicked
                   ELSE IF p.tag = "Job"
                   THEN ReadLocation(get_with_params(jenkins, BuildJob(p.name),
                                                TriggerQuery(token, cause)))
                   ELSE Ready(InvalidUrl(url, "Job")))

\* Jenkins::get_job (job.rs:242-247)
GetJob ==
    /\ pc = "idle"
    /\ \E job_name \in CallerNames :
           LET p == Job(PlainName(job_name), None)
           IN Call("Jenkins::get_job", <<job_name>>, <<>>, p, get(jenkins, p))

\* Jenkins::build_job (job.rs:250-264)
BuildJobCall ==
    /\ pc = "idle"
    /\ \E job_name \in CallerNames :
           LET p == BuildJob(PlainName(job_name))
           IN Call("Jenkins::build_job", <<job_name>>, <<>>, p,
                   ReadLocation(post(jenkins, p)))

\* Jenkins::trigger_job_remotely (job.rs:267-295)
TriggerJobRemotely ==
    /\ pc = "idle"
    /\ \E job_name \in CallerNames, token \in Tokens, cause \in Causes :
           LET p == BuildJob(PlainName(job_name))
           IN Call("Jenkins::trigger_job_remotely", <<job_name>>, <<>>, p,
                   ReadLocation(get_with_params(jenkins, p, TriggerQuery(token, cause))))

\* bodies of the server's answers: text around 'java.lang.<class>: <message>'
body_ok == <<"o", "k">>
body_prefix == <<"h", "v", " ">>
body_wrapping ==
    <<"j", "a", "v", "a", ".", "l", "a", "n", "g", ".", "R", "u", "n", "t", "i", "m", "e",
      "E", "x", "c", "e", "p", "t", "i", "o", "n", ":", " ">>
body_NewException == <<"N", "e", "w", "E", "x", "c", "e", "p", "t", "i", "o", "n">>
body_message == <<"m", "y", " ", "e", "r", "r", "o", "r">>
body_next_line == <<"\n", "v", "z">>

ExceptionLine(pre, dot, class, sep, tail) ==
    pre \o lit_java \o dot \o lit_lang \o dot \o class \o sep \o tail

ResponseBodies ==
    {body_ok, <<>>}
    \cup {ExceptionLine(pre, dot, class, sep, tail) :
            pre \in {<<>>, body_prefix, body_wrapping},
            dot \in {<<".">>, <<"-">>, <<"\n">>},
            class \in {lit_IllegalStateException, lit_IllegalArgumentException,
                       body_NewException, <<>>},
            sep \in {<<":", " ">>, <<":">>},
            tail \in {body_message, body_message \o body_next_line, <<>>}}

Responses ==
    {Response(status, body, TRUE) :
        status \in {200, 404, INTERNAL_SERVER_ERROR}, body \in ResponseBodies}
    \cup {Response(INTERNAL_SERVER_ERROR, body_ok, FALSE)}

PostPaths == {Raw(<<"/", "m", "y", "p", "a", "t", "h">>), BuildJobWithParameters(PlainName(seg_a))}
PostQueries == {<<>>, << <<"a", "1">> >>}

\* jenkins.post_with_body(&path, body, qps), as the tests of mod.rs call it
PostWithBody ==
    /\ pc = "idle"
    /\ \E p \in PostPaths, qps \in PostQueries :
           Call("Jenkins::post_with_body", <<>>, <<>>, p, post_with_body(jenkins, p, qps))

\* a call ends with an outcome
Return(result) ==
    /\ outcome' = result
    /\ pc' = "returned"

\* get_csrf resumes from send (mod.rs:93, under csrf.rs:31-33): on a response
\* without error status it goes on to read the crumb; a failed request ends
\* the call with a CrumbError
CrumbResponds ==
    /\ pc = "crumb_sending"
    /\ \E ok \in BOOLEAN :
           IF ok THEN pc' = "crumb_reading" /\ UNCHANGED outcome
           ELSE Return(CrumbError)
    /\ UNCHANGED <<callVars, requests, response>>

\* get_csrf resumes from .json() (csrf.rs:34-36): with a crumb that makes a
\* header (csrf.rs:20-24) the POST is sent and the call suspends in send; an
\* unreadable or unusable crumb ends the call with a CrumbError
CrumbRead ==
    /\ pc = "crumb_reading"
    /\ \E ok \in BOOLEAN :
           IF ok
           THEN /\ requests' = Append(requests, pending.request)
                /\ pc' = "sending"
                /\ UNCHANGED outcome
           ELSE Return(CrumbError) /\ UNCHANGED requests
    /\ UNCHANGED <<callVars, response>>

\* a GET resumes from send (mod.rs:93, 119-120): on a response without error
\* status the caller goes on to read the body (.json() or .text())
GetResponds ==
    /\ pc = "sending"
    /\ pending.kind = "Get"
    /\ \E ok \in BOOLEAN :
           IF ok THEN pc' = "reading" /\ UNCHANGED outcome
           ELSE Return(RequestError)
    /\ UNCHANGED <<callVars, requests, response>>

\* the caller of a GET resumes from .json() or .text()
BodyRead ==
    /\ pc = "reading"
    /\ pending.kind = "Get"
    /\ \E ok \in BOOLEAN : Return(IF ok THEN Ok ELSE RequestError)
    /\ UNCHANGED <<callVars, requests, response>>

\* Jenkins::post resumes from send (mod.rs:93, 128-129); its callers do not
\* read the body
PostResponds ==
    /\ pc = "sending"
    /\ pending.kind = "Post"
    /\ \E ok \in BOOLEAN : Return(IF ok THEN Ok ELSE RequestError)
    /\ UNCHANGED <<callVars, requests, response>>

\* build and trigger_remotely, build_job and trigger_job_remotely have their
\* answer (job.rs:186-197, 220-231, 251-263, 279-293): a failed request ends
\* the call, a response has its Location header read
LocationResponds ==
    /\ pc = "sending"
    /\ pending.kind \in {"GetLocation", "PostLocation"}
    /\ \E ok \in BOOLEAN, location \in Locations :
           Return(IF ok THEN LocationResult(location) ELSE RequestError)
    /\ UNCHANGED <<callVars, requests, response>>

\* Jenkins::post_with_body resumes from send (mod.rs:93, 148-150): a failed
\* request ends the call; a response with status 500 has its body read
\* (mod.rs:157), any other response ends the call
PostWithBodyResponds ==
    /\ pc = "sending"
    /\ pending.kind = "PostWithBody"
    /\ \E sent \in BOOLEAN, resp \in Responses :
           IF ~sent THEN Return(RequestError) /\ UNCHANGED response
           ELSE /\ response' = resp
                /\ IF resp.status = INTERNAL_SERVER_ERROR
                   THEN pc' = "reading" /\ UNCHANGED outcome
                   ELSE Return(ResponseResult(resp))
    /\ UNCHANGED <<callVars, requests>>

\* Jenkins::post_with_body resumes from .text() (mod.rs:157-198)
ErrorBodyRead ==
    /\ pc = "reading"
    /\ pending.kind = "PostWithBody"
    /\ Return(ResponseResult(response))
    /\ UNCHANGED <<callVars, requests, response>>

NextClient ==
    \/ GetFullBuild \/ BuildGetJob \/ BuildGetConsole \/ GetFullView
    \/ ListViewAddJob \/ ListViewRemoveJob \/ GetFullQueueItem \/ RefreshItem
    \/ GetBuild \/ GetView \/ AddJobToViewCall \/ RemoveJobFromViewCall
    \/ GetNodes \/ GetNode \/ GetMasterNode \/ GetQueue \/ GetQueueItem
    \/ GetObjectAs \/ PostWithBody
    \/ JobGetFullJob \/ JobEnableCall \/ JobDisableCall \/ JobAddToView
    \/ JobRemoveFromView \/ JobBuild \/ JobTriggerRemotely
    \/ GetJob \/ BuildJobCall \/ TriggerJobRemotely \/ LocationResponds
    \/ CrumbResponds \/ CrumbRead \/ GetResponds \/ BodyRead
    \/ PostResponds \/ PostWithBodyResponds \/ ErrorBodyRead

SpecClient == InitClient /\ [][NextClient]_vars

(***************************************************************************)
(* JenkinsBuilder (builder.rs:21-88).                                      *)
(***************************************************************************)
\* mutant of JenkinsBuilder_new: the URL is stored as given
JenkinsBuilder_new_AsGiven(url) ==
    [url |-> url, user |-> None, csrf_enabled |-> TRUE, depth |-> 1]

\* JenkinsBuilder::new (builder.rs:31-44): one trailing '/' is removed
JenkinsBuilder_new(url) ==
    [url |-> IF url # <<>> /\ url[Len(url)] = "/" THEN Slice(url, 0, Len(url) - 1) ELSE url,
     user |-> None, csrf_enabled |-> TRUE, depth |-> 1]

\* JenkinsBuilder::with_user (builder.rs:68-74)
with_user(self, login, password) ==
    [self EXCEPT !.user = Some([username |-> login, password |-> password])]

\* URLs a caller gives to JenkinsBuilder::new
url_context == <<"/", "j", "e", "n", "k", "i", "n", "s">>
BuilderUrls ==
    {base \o context \o trail :
        base \in {JENKINS_URL, OTHER_URL, <<>>},
        context \in {<<>>, url_context, JoinSegs(<<seg_a, seg_job>>)},
        trail \in {<<>>, lit_slash, lit_slash \o lit_slash}}

InitBuilder ==
    /\ jenkins = Unset
    /\ input \in BuilderUrls
    /\ path = Unset
    /\ rendered = <<>>
    /\ fed = <<>>
    /\ reparsed = Unset
    /\ pc = "url"
    /\ NoCall

\* JenkinsBuilder::new(url)
BuilderNew ==
    /\ pc = "url"
    /\ jenkins' = JenkinsBuilder_new(input)
    /\ pc' = "new"
    /\ UNCHANGED <<input, path, rendered, fed, reparsed, clientVars, treeVars>>

\* builder.with_user(login, password)
BuilderWithUser ==
    /\ pc \in {"new", "configured"}
    /\ \E password \in {None, Some(seg_7)} : jenkins' = with_user(jenkins, seg_a, password)
    /\ pc' = "configured"
    /\ UNCHANGED <<input, path, rendered, fed, reparsed, clientVars, treeVars>>

\* builder.disable_csrf()
BuilderDisableCsrf ==
    /\ pc \in {"new", "configured"}
    /\ jenkins' = disable_csrf(jenkins)
    /\ pc' = "configured"
    /\ UNCHANGED <<input, path, rendered, fed, reparsed, clientVars, treeVars>>

\* builder.with_depth(depth)
BuilderWithDepth ==
    /\ pc \in {"new", "configured"}
    /\ \E depth \in 0..MaxClientDepth : jenkins' = with_depth(jenkins, depth)
    /\ pc' = "configured"
    /\ UNCHANGED <<input, path, rendered, fed, reparsed, clientVars, treeVars>>

NextBuilder == BuilderNew \/ BuilderWithUser \/ BuilderDisableCsrf \/ BuilderWithDepth

SpecBuilder == InitBuilder /\ [][NextBuilder]_vars

(***************************************************************************)
(* impl From<integer> for BuildNumber (build/common.rs:151-180).           *)
(* An integer is its type, its sign and its magnitude, the magnitude as    *)
(* the 32 bits above bit 31 and the 32 bits below, each a pair of limbs.   *)
(***************************************************************************)
Integer(type, neg, above, mag) == [type |-> type, neg |-> neg, above |-> above, mag |-> mag]

\* -m modulo 2^32
Neg32(m) ==
    IF m = Zero32 THEN Zero32
    ELSE IF m.lo = 0 THEN [hi |-> Limb - m.hi, lo |-> 0]
    ELSE [hi |-> Limb - 1 - m.hi, lo |-> Limb - m.lo]

\* v as u32: the low 32 bits of the two's complement of v
AsU32(v) == IF v.neg THEN Neg32(v.mag) ELSE v.mag

\* mutant of BuildNumber_from: every number becomes the first build
BuildNumber_from_One(v) == Number([hi |-> 0, lo |-> 1])

\* From<u32> (151-155), safe_into_buildnumber! for u8 and u16 (156-164),
\* into_buildnumber! for u64, i8, i16, i32 and i64 (165-173)
BuildNumber_from(v) ==
    CASE v.type = "u32" -> Number(v.mag)
      [] v.type \in {"u8", "u16"} -> Number(v.mag)
      [] OTHER -> Number(AsU32(v))

IntegerTypes == {"u8", "u16", "u32", "u64", "i8", "i16", "i32", "i64"}

\* the values of each type
InRange(v) ==
    LET small == v.above = Zero32 /\ v.mag.hi = 0
        positive == ~v.neg
        nonzero == v.above # Zero32 \/ v.mag # Zero32
    IN /\ v.neg => nonzero
       /\ CASE v.type = "u8" -> positive /\ small /\ v.mag.lo < 256
            [] v.type = "u16" -> positive /\ small
            [] v.type = "u32" -> positive /\ v.above = Zero32
            [] v.type = "u64" -> positive
            [] v.type = "i8" -> small /\ (IF v.neg THEN v.mag.lo <= 128 ELSE v.mag.lo < 128)
            [] v.type = "i16" ->
                  small /\ (IF v.neg THEN v.mag.lo <= HalfLimb ELSE v.mag.lo < HalfLimb)
            [] v.type = "i32" ->
                  /\ v.above = Zero32
                  /\ IF v.neg THEN v.mag.hi < HalfLimb \/ v.mag = I32MinMagnitude
                     ELSE v.mag.hi < HalfLimb
            [] v.type = "i64" ->
                  IF v.neg
                  THEN v.above.hi < HalfLimb \/ (v.above = I32MinMagnitude /\ v.mag = Zero32)
                  ELSE v.above.hi < HalfLimb

\* limbs at the edges of the types
EdgeLimbs == {0, 1, 7, 127, 128, 255, 256, HalfLimb - 1, HalfLimb, Limb - 1}
EdgeHighLimbs == {0, 1, HalfLimb - 1, HalfLimb, Limb - 1}

IntegerValues ==
    {v \in {Integer(t, neg, above, [hi |-> hi, lo |-> lo]) :
              t \in IntegerTypes, neg \in BOOLEAN,
              above \in {Zero32, [hi |-> 0, lo |-> 1], I32MinMagnitude, U32Max},
              hi \in EdgeHighLimbs, lo \in EdgeLimbs} : InRange(v)}

\* a caller holds an integer build number
InitNumber ==
    /\ jenkins = NewClient(JENKINS_URL)
    /\ input = <<>>
    /\ path = Unset
    /\ rendered = <<>>
    /\ fed = <<>>
    /\ reparsed = Unset
    /\ pc = "integer"
    /\ \E v \in IntegerValues : op = [fn |-> "BuildNumber::from", value |-> v]
    /\ pending = Unset
    /\ requests = <<>>
    /\ outcome = Unset
    /\ response = Unset
    /\ tree = Unset
    /\ appended = <<>>
    /\ query = <<>>

\* build_number.into() in Jenkins::get_build (build/mod.rs:31-36)
NumberFrom ==
    /\ pc = "integer"
    /\ path' = Build(PlainName(seg_a), BuildNumber_from(op.value), None)
    /\ pc' = "number"
    /\ UNCHANGED <<jenkins, input, rendered, fed, reparsed, clientVars, treeVars>>

\* path.to_string() for the request
NumberRender ==
    /\ pc = "number"
    /\ rendered' = Display(path)
    /\ pc' = "rendered"
    /\ UNCHANGED <<jenkins, input, path, fed, reparsed, clientVars, treeVars>>

NextNumber == NumberFrom \/ NumberRender

SpecNumber == InitNumber /\ [][NextNumber]_vars

(***************************************************************************)
(* Vocabulary of the properties.                                           *)
(***************************************************************************)
NoSlash(s) == \A i \in 1..Len(s) : s[i] # "/"

EndsWithSlash(s) == s # <<>> /\ s[Len(s)] = "/"

\* one or more decimal digits
IsPlainDecimal(s) == s # <<>> /\ \A i \in 1..Len(s) : IsDigit(s[i])

RECURSIVE StripZeros(_)
StripZeros(s) ==
    IF Len(s) > 1 /\ Head(s) = "0" THEN StripZeros(Tail(s)) ELSE s

RECURSIVE DigitsLeq(_, _)
DigitsLeq(a, b) ==
    IF a = <<>> THEN TRUE
    ELSE IF DigitValue(Head(a)) < DigitValue(Head(b)) THEN TRUE
    ELSE IF DigitValue(Head(a)) > DigitValue(Head(b)) THEN FALSE
    ELSE DigitsLeq(Tail(a), Tail(b))

\* the decimal digit string s denotes a value of at most 2^32 - 1
FitsU32(s) ==
    LET c == StripZeros(s)
    IN Len(c) < Len(seg_u32max) \/ (Len(c) = Len(seg_u32max) /\ DigitsLeq(c, seg_u32max))

RECURSIVE DecimalValueFrom(_, _)
DecimalValueFrom(s, acc) ==
    IF s = <<>> THEN acc
    ELSE DecimalValueFrom(Tail(s), MulAdd10(acc, DigitValue(Head(s))))

\* the value of a decimal digit string that fits 32 bits
DecimalValue(s) == DecimalValueFrom(s, Zero32)

\* the digits of a text with its optional leading '+' removed
Unsigned(s) == IF s # <<>> /\ Head(s) = "+" THEN Tail(s) ELSE s

\* texts that denote an unsigned 32-bit number: digits only / optional '+'
IsDigitsU32(s) == IsPlainDecimal(s) /\ FitsU32(s)
IsSignedDigitsU32(s) == IsPlainDecimal(Unsigned(s)) /\ FitsU32(Unsigned(s))

U32Texts == {s \in LastPool : IsSignedDigitsU32(s)}

Enc(s) == UrlEncodedName(s)

JobSegUrl(a, x) == lit_job \o lit_slash \o a \o lit_slash \o x \o lit_slash

RECURSIVE Nest(_, _)
Nest(fs, inner) ==
    IF fs = <<>> THEN inner ELSE InFolder(Enc(Head(fs)), Nest(Tail(fs), inner))

\* the input with the client's base URL removed when it starts with it
InputPath ==
    IF Len(jenkins.url) <= Len(input) /\ SubSeq(input, 1, Len(jenkins.url)) = jenkins.url
    THEN SubSeq(input, Len(jenkins.url) + 1, Len(input))
    ELSE input

(***************************************************************************)
(* C1. Round trip.                                                         *)
(***************************************************************************)
EncNoSlash(n) == n.tag = "UrlEncodedName" /\ NoSlash(n.v)

\* Job and Build values a link of the server can denote
JobLike(p) ==
    /\ p.tag = "Job"
    /\ EncNoSlash(p.name)
    /\ \/ p.configuration.tag = "None"
       \/ /\ EncNoSlash(p.configuration.v)
          /\ ~IsSignedDigitsU32(p.configuration.v.v)

BuildLike(p) ==
    /\ p.tag \in {"Build", "MavenArtifactRecord"}
    /\ EncNoSlash(p.job_name)
    /\ p.number.tag = "Number"
    /\ IF p.configuration.tag = "None" THEN p.tag = "Build"
       ELSE EncNoSlash(p.configuration.v) /\ p.configuration.v.v # seg_job

RoundTripDomain(p) ==
    \/ p.tag = "View" /\ EncNoSlash(p.name)
    \/ p.tag = "QueueItem"
    \/ JobLike(p)
    \/ BuildLike(p)
    \/ /\ p.tag = "InFolder"
       /\ EncNoSlash(p.folder_name)
       /\ \/ /\ JobLike(p.path)
             /\ p.path.configuration.tag = "None" => p.path.name.v # seg_maven
          \/ /\ BuildLike(p.path)
             /\ p.path.tag = "Build"
             /\ p.path.configuration.tag = "None"

\* C1: for every constructible Path p of any variant other than Raw, parsing
\* the rendering of p with url_to_path yields p.
C1_RoundTrip ==
    (pc = "reparsed" /\ fed = rendered /\ path.tag # "Raw") => reparsed = path

\* the failing value of C1 with the '/' every parser rule requires put back:
\* MavenArtifactRecord{a, 7, None} renders /job/a/7/mavenArtifacts, and the
\* parse of /job/a/7/mavenArtifacts/ panics (path.rs:246)
C1_Witness ==
    /\ pc = "reparsed"
    /\ path = MavenArtifactRecord(Enc(seg_a), Number([hi |-> 0, lo |-> 7]), None)
    /\ fed = rendered \o lit_slash
    /\ reparsed = Panic

\* the part of C1 that holds once the '/' is put back: the values of
\* RoundTripDomain, which leaves out what the parser loses to its own faults (a
\* MavenArtifactRecord without configuration, a folder around a Job named
\* mavenArtifacts, a folder around three or more further segments)
C1_RoundTripWithSlashButParserFaults ==
    (pc = "reparsed" /\ fed = rendered \o lit_slash /\ RoundTripDomain(path))
        => reparsed = path

(***************************************************************************)
(* C2. The numeric probe of /job/<A>/<X>/.                                 *)
(***************************************************************************)
\* the links /job/A/X/ with their segments
JobSegCases == {[url |-> JobSegUrl(a, x), a |-> a, x |-> x] : a \in SegPool, x \in LastPool}

\* C2 as stated: /job/A/X/ is Build{A, X, None} exactly when X is digits only
\* and fits 32 bits, and Job{A, Some(X)} for every other X.
C2_DigitsOnlyProbe ==
    pc # "input" =>
        \A c \in JobSegCases :
            input = c.url =>
                path = IF IsDigitsU32(c.x)
                       THEN Build(Enc(c.a), Number(DecimalValue(c.x)), None)
                       ELSE Job(Enc(c.a), Some(Enc(c.x)))

\* C2 amended: /job/A/X/ is Build{A, value of X, None} exactly when X is an
\* optional '+' followed by one or more decimal digits whose value fits 32
\* bits, and Job{A, Some(X)} for every other X.
C2_SignedDigitsProbe ==
    pc # "input" =>
        \A c \in JobSegCases :
            input = c.url =>
                path = IF IsSignedDigitsU32(c.x)
                       THEN Build(Enc(c.a), Number(DecimalValue(Unsigned(c.x))), None)
                       ELSE Job(Enc(c.a), Some(Enc(c.x)))

C2_Witness ==
    /\ pc = "parsed"
    /\ input = JobSegUrl(seg_a, seg_plus1)
    /\ path = Build(Enc(seg_a), Number([hi |-> 0, lo |-> 1]), None)

(***************************************************************************)
(* C3. Totality and the Raw fallback.                                      *)
(***************************************************************************)
RuleHeads == {lit_view, lit_job, lit_queue}

MatchesNoRule(p) ==
    LET sl == Slashes(p)
    IN Len(sl) < 2 \/ SubSeq(p, 1, sl[2]) \notin RuleHeads

\* C3: url_to_path returns a Path for every input, the base URL itself and
\* inputs with fewer than two '/' included, and an input that matches no rule
\* yields Raw holding the input path.
C3_TotalWithRawFallback ==
    pc # "input" =>
        /\ path.tag # "Panic"
        /\ MatchesNoRule(InputPath) => path = Raw(InputPath)

(***************************************************************************)
(* C4. Folder nesting of any depth.                                        *)
(***************************************************************************)
\* C4: /job/F1/.../job/Fk/job/J/ parses to k InFolder wrappers F1..Fk around
\* Job{J}, and with a build number N appended to k wrappers around Build{J, N}.
C4_NestedFolders ==
    pc # "input" =>
        \A fs \in FolderLists, j \in JobNames :
            /\ input = FolderJobUrl(fs, j) => path = Nest(fs, Job(Enc(j), None))
            /\ \A n \in BuildTexts :
                 input = FolderBuildUrl(fs, j, n) =>
                     path = Nest(fs, Build(Enc(j), Number(DecimalValue(n)), None))

(***************************************************************************)
(* C5. One folder level.                                                   *)
(***************************************************************************)
\* the links /job/F/job/J/ and /job/F/job/J/N/ with their segments
FolderJobCases ==
    {[url |-> FolderJobUrl(<<f>>, j), f |-> f, j |-> j] : f \in SegPool, j \in SegPool}
FolderBuildCases ==
    {[url |-> FolderBuildUrl(<<f>>, j, n), f |-> f, j |-> j, n |-> n] :
        f \in SegPool, j \in SegPool, n \in U32Texts}

\* C5: /job/F/job/J/N/ parses to InFolder{F, Build{J, N, None}} and
\* /job/F/job/J/ to InFolder{F, Job{J, None}}, for every folder F, job J and
\* unsigned number N.
C5_OneFolderLevel ==
    pc # "input" =>
        /\ \A c \in FolderJobCases :
              input = c.url => path = InFolder(Enc(c.f), Job(Enc(c.j), None))
        /\ \A c \in FolderBuildCases :
              input = c.url =>
                  path = InFolder(Enc(c.f),
                                  Build(Enc(c.j), Number(DecimalValue(Unsigned(c.n))), None))

(***************************************************************************)
(* C6. Maven artifact record without configuration.                        *)
(***************************************************************************)
MavenUrl(a, n) == lit_job \o lit_slash \o a \o lit_slash \o n \o lit_mavenArtifacts \o lit_slash

MavenCases ==
    {[url |-> MavenUrl(a, n), a |-> a, n |-> n] :
        a \in SegPool, n \in {x \in SegPool : IsDigitsU32(x)}}

\* C6: /job/A/N/mavenArtifacts/ parses to MavenArtifactRecord{A, N, None}.
C6_MavenNoConfiguration ==
    pc # "input" =>
        \A c \in MavenCases :
            input = c.url =>
                path = MavenArtifactRecord(Enc(c.a), Number(DecimalValue(c.n)), None)

(***************************************************************************)
(* C7. The trailing slash.                                                 *)
(***************************************************************************)
\* the rule shapes the claim lists, without the closing '/'
RuleShapes ==
    {<<seg_view, n>> : n \in SegPool}
    \cup {<<seg_job, n>> : n \in SegPool}
    \cup {<<seg_job, n, x>> : n \in SegPool, x \in SegPool}
    \cup {<<seg_job, n, c, x>> : n \in SegPool, c \in SegPool, x \in SegPool}
    \cup {<<seg_queue, seg_item, id>> : id \in SegPool}

UnclosedRuleInputs == {JoinSegs(segs) : segs \in RuleShapes}

\* C7: a path of a rule's shape that does not end in '/' parses to Raw holding
\* that path.
C7_TrailingSlashMandatory ==
    (pc # "input" /\ input \in UnclosedRuleInputs) => path = Raw(input)

(***************************************************************************)
(* C8. Idempotence.                                                        *)
(***************************************************************************)
\* C8 as stated: for every input s that parses to a non-Raw variant,
\* parse(render(parse(s))) = parse(s).
C8_Idempotent ==
    (pc = "reparsed" /\ fed = rendered /\ path.tag # "Raw") => reparsed = path

\* C8 amended: for every input s that ends in '/' and parses to a non-Raw
\* variant, parsing render(parse(s)) followed by '/' yields parse(s).
C8_IdempotentWithSlash ==
    (pc = "reparsed" /\ fed = rendered \o lit_slash /\ path.tag # "Raw"
       /\ EndsWithSlash(input))
        => reparsed = path

C8_Witness ==
    /\ pc = "reparsed"
    /\ fed = rendered \o lit_slash
    /\ input = JENKINS_URL \o JoinSegs(<<seg_queue, seg_item, seg_minus3>>) \o lit_slash
    /\ path.tag = "QueueItem"
    /\ reparsed = path

(***************************************************************************)
(* C9. Rendering a parsed folder build link.                               *)
(***************************************************************************)
\* C9 as stated: rendering the value parsed from /job/F/job/J/N/ gives the
\* identical string.
C9_FolderBuildRendersInput ==
    pc \in {"rendered", "reparsed"} =>
        \A c \in FolderBuildCases : input = c.url => rendered = input

\* C9 amended: rendering the value parsed from /job/F/job/J/N/ gives
\* /job/F/job/J/n with n the decimal form of N's value and no trailing '/':
\* the input without its last character when N is plain decimal without
\* leading zeros.
C9_FolderBuildRendersCanonical ==
    pc \in {"rendered", "reparsed"} =>
        \A c \in FolderBuildCases :
            input = c.url =>
                /\ rendered = FolderJobUrl(<<c.f>>, c.j) \o StripZeros(Unsigned(c.n))
                /\ c.n = StripZeros(Unsigned(c.n)) =>
                       rendered = SubSeq(input, 1, Len(input) - 1)

C9_Witness ==
    /\ pc = "rendered"
    /\ input = FolderBuildUrl(<<seg_a>>, seg_job, seg_lead0)
    /\ rendered = FolderJobUrl(<<seg_a>>, seg_job) \o seg_7

(***************************************************************************)
(* C10. Parse-then-render of an unrecognized path.                         *)
(***************************************************************************)
\* C10 as stated: rendering the Raw value of an input gives back the input.
C10_RawRendersInput ==
    (pc \in {"rendered", "reparsed"} /\ path.tag = "Raw") => rendered = input

\* C10 amended: rendering the Raw value of an input gives back the input with
\* the client's base URL removed from its start, and the input itself when it
\* does not start with the base URL.
C10_RawRendersInputPath ==
    (pc \in {"rendered", "reparsed"} /\ path.tag = "Raw") => rendered = InputPath

C10_Witness ==
    /\ pc = "rendered"
    /\ input = JENKINS_URL \o JoinSegs(<<seg_a, seg_a>>) \o lit_slash
    /\ path.tag = "Raw"
    /\ rendered = JoinSegs(<<seg_a, seg_a>>) \o lit_slash

(***************************************************************************)
(* C11. Base-URL stripping.                                                *)
(***************************************************************************)
\* a link under the client's base URL parses to what its server-relative
\* part parses to (the outcome of a panicking call included)
C11_SamePathWithBase ==
    (pc # "input" /\ starts_with(input, jenkins.url)) =>
        path = url_to_path(jenkins, SliceFrom(input, Len(jenkins.url)))

\* a link under another server's URL is kept whole, as a Raw value
C11_ForeignIsRaw ==
    (pc # "input" /\ input \in ForeignInputs) => path = Raw(input)

\* C11: parsing the base URL followed by p yields the Path that parsing p
\* yields, and an input that does not start with the base URL is parsed as
\* it is and never ends in an error.
C11_BaseStripping ==
    /\ C11_SamePathWithBase
    /\ C11_ForeignIsRaw
    /\ (pc # "input" /\ ~starts_with(input, jenkins.url)) => path.tag # "Panic"

(***************************************************************************)
(* C12. A build under a configuration.                                     *)
(***************************************************************************)
ConfigBuildUrl(a, b, c) == JoinSegs(<<seg_job, a, b, c>>) \o lit_slash

\* the links /job/A/B/C/ whose B is not "job" and whose C is the decimal text
\* of an unsigned 32-bit number
ConfigBuildCases ==
    {[url |-> ConfigBuildUrl(a, b, c), a |-> a, b |-> b, c |-> c] :
        a \in SegPool, b \in SegPool \ {seg_job}, c \in {x \in LastPool : IsDigitsU32(x)}}

\* C12: /job/A/B/C/ with B other than "job", not a maven-artifact path, and
\* C an unsigned integer parses to Build{job_name A, number C,
\* configuration Some(B)}.
C12_BuildWithConfiguration ==
    pc # "input" =>
        \A k \in ConfigBuildCases :
            InputPath = k.url =>
                path = Build(Enc(k.a), Number(DecimalValue(k.c)), Some(Enc(k.b)))

C12_Witness ==
    /\ pc = "parsed"
    /\ input = JENKINS_URL \o ConfigBuildUrl(seg_a, seg_maven, seg_lead0)
    /\ path = Build(Enc(seg_a), Number([hi |-> 0, lo |-> 7]), Some(Enc(seg_maven)))

(***************************************************************************)
(* C13. The queue-item rule.                                               *)
(***************************************************************************)
\* the digits of a text with its optional leading '+' or '-' removed
Unsign(s) == IF s # <<>> /\ Head(s) \in {"+", "-"} THEN Tail(s) ELSE s

\* texts that denote a signed 32-bit number: an optional sign, decimal
\* digits, value within -2^31 .. 2^31 - 1
IsI32Text(s) ==
    LET d == Unsign(s)
        c == StripZeros(d)
        limit == IF s # <<>> /\ Head(s) = "-" THEN seg_i32over ELSE seg_i32max
    IN /\ IsPlainDecimal(d)
       /\ Len(c) < Len(limit) \/ (Len(c) = Len(limit) /\ DigitsLeq(c, limit))

I32Value(s) ==
    LET mag == DecimalValue(Unsign(s))
    IN [neg |-> Head(s) = "-" /\ mag # Zero32, mag |-> mag]

QueueItemCases == {[url |-> QueueItemUrl(id), id |-> id] : id \in LastPool \cup QueueIdTexts}

\* C13: /queue/item/<id>/ parses to QueueItem{id} for every signed 32-bit id,
\* negative ones included; for any other <id> the call fails: it yields
\* neither Raw nor a QueueItem with a default id.
C13_QueueItemOrFailure ==
    pc # "input" =>
        \A k \in QueueItemCases :
            InputPath = k.url =>
                path = IF IsI32Text(k.id) THEN QueueItem(I32Value(k.id)) ELSE Panic

C13_Witness ==
    /\ pc = "parsed"
    /\ input = QueueItemUrl(<<"-">> \o seg_i32over)
    /\ path = QueueItem([neg |-> TRUE, mag |-> I32MinMagnitude])

\* a malformed id ends the call in a failure
C13_WitnessFailure ==
    /\ pc = "parsed"
    /\ input = QueueItemUrl(seg_i32over)
    /\ path = Panic

(***************************************************************************)
(* C14. A stored link of another kind.                                     *)
(***************************************************************************)
BuildLinkOps == {"ShortBuild::get_full_build", "Build::get_job", "Build::get_console"}
ViewLinkOps == {"ShortView::get_full_view", "ListView::add_job", "ListView::remove_job"}
QueueLinkOps == {"ShortQueueItem::get_full_queue_item", "QueueItem::refresh_item"}
JobLinkOps ==
    {"ShortJob::get_full_job", "Job::enable", "Job::disable", "Job::add_to_view",
     "Job::remove_from_view", "Job::build", "Job::trigger_remotely"}
LinkOps == BuildLinkOps \cup ViewLinkOps \cup QueueLinkOps \cup JobLinkOps

ExpectedKind(fn) ==
    IF fn \in BuildLinkOps THEN "Build"
    ELSE IF fn \in ViewLinkOps THEN "View"
    ELSE IF fn \in QueueLinkOps THEN "QueueItem"
    ELSE "Job"

\* p is a link of the kind: the variant itself, or for Build a Build in a folder
HasKind(p, kind) ==
    \/ p.tag = kind
    \/ kind = "Build" /\ p.tag = "InFolder" /\ p.path.tag = "Build"

\* C14: a link-following operation whose stored URL parses to a Path of
\* another kind than the one it expects (Build, also inside a folder; View;
\* QueueItem; Job for the operations of job.rs) returns InvalidUrl with the stored URL and the expected kind, and
\* sends no request: the call returns without ever suspending.
C14_KindMismatch ==
    (pc # "idle" /\ op.fn \in LinkOps /\ path # Panic
        /\ ~HasKind(path, ExpectedKind(op.fn)))
    => /\ pc = "returned"
       /\ outcome = InvalidUrl(input, ExpectedKind(op.fn))
       /\ requests = <<>>

C14_Witness ==
    /\ pc = "returned"
    /\ op.fn = "Build::get_console"
    /\ input = JENKINS_URL \o FolderJobUrl(<<seg_a>>, seg_7)
    /\ path = InFolder(Enc(seg_a), Job(Enc(seg_7), None))
    /\ outcome = InvalidUrl(input, "Build")
    /\ requests = <<>>

(***************************************************************************)
(* C15. Names are tagged by their origin.                                  *)
(***************************************************************************)
OptNameSet(o) == IF o.tag = "Some" THEN {o.v} ELSE {}

\* the tagged names a Path holds
RECURSIVE NamesIn(_)
NamesIn(p) ==
    CASE p.tag \in {"View", "BuildJob", "BuildJobWithParameters", "PollSCMJob",
                    "JobEnable", "JobDisable", "Computer"} -> {p.name}
      [] p.tag \in {"AddJobToView", "RemoveJobFromView"} -> {p.job_name, p.view_name}
      [] p.tag = "Job" -> {p.name} \cup OptNameSet(p.configuration)
      [] p.tag \in {"Build", "MavenArtifactRecord"} ->
            {p.job_name} \cup OptNameSet(p.configuration)
      [] p.tag = "ConsoleText" ->
            {p.job_name} \cup OptNameSet(p.configuration) \cup OptNameSet(p.folder_name)
      [] p.tag = "ConfigXML" -> {p.job_name} \cup OptNameSet(p.folder_name)
      [] p.tag = "InFolder" -> {p.folder_name} \cup NamesIn(p.path)
      [] OTHER -> {}

\* the tagged names of the requests of the call
RequestNames == UNION {NamesIn(requests[i].path) : i \in 1..Len(requests)}

\* the names given by the caller reach the requests tagged Name, and a name
\* tagged UrlEncodedName in a request is one that url_to_path took from the
\* stored link
TaggedByOrigin ==
    /\ \A i \in 1..Len(op.names) :
          outcome.tag \in {"Ok", "Request"} => PlainName(op.names[i]) \in RequestNames
    /\ \A n \in RequestNames :
          n.tag = "UrlEncodedName" => (op.fn \in LinkOps /\ n \in NamesIn(path))

\* the operations given their names by the caller, get_object_as apart
NamedCalls ==
    {"Jenkins::get_build", "Jenkins::get_view", "Jenkins::get_node",
     "Jenkins::get_master_node", "Jenkins::add_job_to_view",
     "Jenkins::remove_job_from_view", "Jenkins::get_job", "Jenkins::build_job",
     "Jenkins::trigger_job_remotely"}

\* the URL holds the name percent-encoded once, as a segment or as a value
EncodedOnceIn(name, url) ==
    \E k \in 0..Len(url), sep \in {"/", "="} :
        starts_with(SliceFrom(url, k), <<sep>> \o urlencoding_encode(name))

\* the tags follow the origin, and the names the caller gave are in the URL
\* of the request percent-encoded once
TaggedAndEncoded ==
    /\ TaggedByOrigin
    /\ (op.fn \in NamedCalls \cup {"Jenkins::get_object_as"}
            /\ outcome.tag \in {"Ok", "Request"}) =>
          \A i \in 1..Len(op.names) : EncodedOnceIn(op.names[i], requests[Len(requests)].url)

\* the part of C15 that holds: every operation but get_object_as
C15_TaggedByOriginButObject ==
    (pc = "returned" /\ op.fn # "Jenkins::get_object_as") => TaggedAndEncoded

\* C15: every name the caller supplies (get_build, get_view, get_node,
\* add_job_to_view, the names of the Path given to get_object_as) is in the
\* request's Path tagged Name, hence percent-encoded once in the URL; only
\* names that url_to_path extracted from a link are tagged UrlEncodedName.
C15_NamesTaggedByOrigin == pc = "returned" => TaggedAndEncoded

(***************************************************************************)
(* C16. What an InFolder wraps.                                            *)
(***************************************************************************)
FolderContent == {"Job", "Build", "InFolder"}

\* every InFolder of p, at any depth, wraps a Job, a Build or an InFolder
RECURSIVE WellNested(_)
WellNested(p) ==
    p.tag = "InFolder" => (p.path.tag \in FolderContent /\ WellNested(p.path))

\* C16: every InFolder that url_to_path produces from a stored link, and every
\* InFolder a link-following operation puts in a request, wraps a Job, a Build
\* or another InFolder, never another variant (in every state of the call).
C16_FolderContent ==
    pc # "idle" =>
        /\ WellNested(path)
        /\ \A i \in 1..Len(requests) : WellNested(requests[i].path)

C16_Witness ==
    /\ pc = "returned"
    /\ op.fn = "Build::get_job"
    /\ path = InFolder(Enc(seg_a), Build(Enc(seg_7), Number(U32Max), None))
    /\ Len(requests) = 1
    /\ requests[1].path = InFolder(Enc(seg_a), Job(Enc(seg_7), None))

\* the same for every link of the parser's specification
ParsedFolderContent == pc # "input" => WellNested(path)

(***************************************************************************)
(* C17. The query parameter of a GET request.                              *)
(***************************************************************************)
\* the request carries the client's configured depth and nothing else
CarriesClientDepth(r) == r.query = << <<"depth", <<DigitChars[jenkins.depth + 1]>>>> >>

\* the request carries exactly one parameter, depth or tree
CarriesOneOfDepthOrTree(r) == Len(r.query) = 1 /\ r.query[1][1] \in {"depth", "tree"}

QueryContract ==
    \A i \in 1..Len(requests) :
        requests[i].method = "GET" =>
            /\ CarriesOneOfDepthOrTree(requests[i])
            /\ op.parameters = None => CarriesClientDepth(requests[i])

\* the operations whose GET carries token and cause
TriggerOps == {"Job::trigger_remotely", "Jenkins::trigger_job_remotely"}

\* the part of C17 that holds: every call but get_object_as without a query
\* and the remote triggers
C17_OneOfDepthOrTreeButBareObject ==
    (pc = "returned" /\ ~(op.fn = "Jenkins::get_object_as" /\ op.parameters = None)
        /\ op.fn \notin TriggerOps)
        => QueryContract

\* C17: every GET request carries exactly one of depth and tree, and when the
\* caller gave no advanced query it carries depth with the client's configured
\* value.
C17_ExactlyOneOfDepthOrTree == pc = "returned" => QueryContract

(***************************************************************************)
(* C18. The renderer is total and adds no trailing '/'.                    *)
(***************************************************************************)
\* the name is written as nothing, or as text that ends in '/': an empty
\* name, or a UrlEncodedName (written verbatim) ending in '/'
OpenName(n) == n.v = <<>> \/ (n.tag = "UrlEncodedName" /\ EndsWithSlash(n.v))

\* the same for a build number: only an UnknownAlias is free text
OpenNumber(b) == b.tag = "UnknownAlias" /\ (b.alias = <<>> \/ EndsWithSlash(b.alias))

\* the last thing written for p is a field of p, written as nothing or ending
\* in '/'
RECURSIVE OpenEnd(_)
OpenEnd(p) ==
    CASE p.tag = "View" -> OpenName(p.name)
      [] p.tag \in {"AddJobToView", "RemoveJobFromView"} ->
            p.job_name.tag = "UrlEncodedName" /\ EndsWithSlash(p.job_name.v)
      [] p.tag = "Job" ->
            IF p.configuration.tag = "Some" THEN OpenName(p.configuration.v)
            ELSE OpenName(p.name)
      [] p.tag = "Build" -> OpenNumber(p.number)
      [] p.tag = "Raw" -> EndsWithSlash(p.path)
      [] p.tag = "InFolder" ->
            IF p.path = Home \/ p.path = Raw(<<>>) THEN OpenName(p.folder_name)
            ELSE OpenEnd(p.path)
      [] OTHER -> FALSE

\* C18 as stated: every Path value renders, and the rendering does not end
\* in '/'; Home renders as the empty string.
C18_NoTrailingSlash ==
    pc = "rendered" =>
        /\ ~EndsWithSlash(rendered)
        /\ path = Home => rendered = <<>>

\* C18 amended: every Path value renders, Home as the empty string, and the
\* renderer writes no '/' after the last field: the rendering ends in '/'
\* exactly when the last field written is verbatim text ending in '/' (a Raw
\* path, a UrlEncodedName, an UnknownAlias build number) or an empty name or
\* alias that leaves the '/' before it at the end.
C18_NoTrailingSlashAdded ==
    /\ pc = "parsed" => Len(Display(path)) >= 0
    /\ pc = "rendered" =>
          /\ EndsWithSlash(rendered) <=> OpenEnd(path)
          /\ path = Home => rendered = <<>>

C18_Witness ==
    /\ pc = "rendered"
    /\ path = ConsoleText(Enc(name_a_slash), UnknownAlias(seg_a), Some(Enc(name_a_slash)),
                          Some(PlainName(seg_a)))
    /\ ~EndsWithSlash(rendered)

(***************************************************************************)
(* C19. The segments of ConsoleText and ConfigXML.                         *)
(***************************************************************************)
\* an optional segment: the prefix and the name when there is one
OptSeg(prefix, o) == IF o.tag = "Some" THEN prefix \o FmtName(o.v) ELSE <<>>

\* folder, job, configuration, number, suffix, in this order
SegmentsInOrder(p) ==
    IF p.tag = "ConsoleText"
    THEN OptSeg(lit_job \o lit_slash, p.folder_name)
         \o lit_job \o lit_slash \o FmtName(p.job_name)
         \o OptSeg(lit_slash, p.configuration)
         \o lit_slash \o FmtBuildNumber(p.number)
         \o lit_consoleText
    ELSE OptSeg(lit_job \o lit_slash, p.folder_name)
         \o lit_job \o lit_slash \o FmtName(p.job_name)
         \o lit_config_xml

\* C19: ConsoleText and ConfigXML render folder, job, configuration, number
\* and suffix in this order, each optional segment exactly when its field is
\* Some; so the rendering with a folder f is '/job/<f>' followed by the
\* rendering of the same value without folder.
C19_SegmentOrder ==
    (pc = "rendered" /\ path.tag \in {"ConsoleText", "ConfigXML"}) =>
        /\ rendered = SegmentsInOrder(path)
        /\ path.folder_name.tag = "Some" =>
              rendered = lit_job \o lit_slash \o FmtName(path.folder_name.v)
                         \o Display([path EXCEPT !.folder_name = None])

C19_Witness ==
    /\ pc = "rendered"
    /\ path = ConsoleText(Enc(seg_a), Number([hi |-> 0, lo |-> 7]), Some(Enc(seg_job)),
                          Some(Enc(seg_maven)))
    /\ rendered = JoinSegs(<<seg_job, seg_maven, seg_job, seg_a, seg_job, seg_7>>)
                  \o lit_consoleText

(***************************************************************************)
(* C20. The order of the children in a rendered tree query.                *)
(***************************************************************************)
\* builds[url,result,actions[causes]]
query_builds_example ==
    key_builds \o <<"[">> \o key_url \o <<",">> \o key_result \o <<",">>
    \o key_actions \o <<"[">> \o key_causes \o <<"]">> \o <<"]">>

\* the node the example builds
tree_builds_example ==
    with_subfield(
        with_field(with_field(TreeBuilder_object(key_builds), TreeQueryParam_from(key_url)),
                   TreeQueryParam_from(key_result)),
        with_subfield(TreeBuilder_object(key_actions), TreeQueryParam_from(key_causes)))

\* r1,...,rn between the brackets, in the order of the with_field calls
RECURSIVE InCallOrder(_)
InCallOrder(rs) ==
    IF Len(rs) = 1 THEN rs[1]
    ELSE InCallOrder(SubSeq(rs, 1, Len(rs) - 1)) \o <<",">> \o rs[Len(rs)]

\* C20: a named node with children c1..cn (n >= 1) renders as name[r1,...,rn],
\* ri the rendering of ci, in the order the children were appended through
\* with_field/with_subfield, followed by the range suffix of the node when it
\* has one; the object builds with children url, result and actions[causes]
\* renders builds[url,result,actions[causes]].
C20_AppendOrder ==
    (pc = "built" /\ tree.keyname.tag = "Some" /\ Len(tree.subkeys) >= 1) =>
        /\ Len(appended) = Len(tree.subkeys)
        /\ \A i \in 1..Len(appended) : appended[i] = TreeQueryParam_Display(tree.subkeys[i])
        /\ query = tree.keyname.v \o <<"[">> \o InCallOrder(appended) \o <<"]">>
                   \o (IF tree.range.tag = "Some" THEN FmtRange(tree.range.v) ELSE <<>>)
        /\ tree = tree_builds_example => query = query_builds_example

C20_Witness ==
    /\ pc = "built"
    /\ tree.keyname = Some(key_builds)
    /\ tree.range = None
    /\ appended = <<key_url, key_result, key_actions \o <<"[">> \o key_causes \o <<"]">> >>
    /\ query = query_builds_example

(***************************************************************************)
(* C21. The range suffix of a rendered tree query.                         *)
(***************************************************************************)
\* {start,end}
BraceSuffix(range) ==
    <<"{">> \o FmtU32(range.start) \o <<",">> \o FmtU32(range.end) \o <<"}">>

\* name, or name[r1,...,rn]: a named node without its range
NormalForm(name, rs) ==
    IF rs = <<>> THEN name ELSE name \o <<"[">> \o Join(rs, <<",">>) \o <<"]">>

\* builds{0,10}
query_builds_range ==
    key_builds \o <<"{", "0", ",", "1", "0", "}">>

\* with_range before the with_field calls and after them build the same node
RangeCallCommutes ==
    \A o \in ObjectNames, r \in Ranges, f \in SubFields, g \in SubFields :
        /\ with_field(with_range(TreeBuilder_object(o), r), f)
              = with_range(with_field(TreeBuilder_object(o), f), r)
        /\ with_field(with_field(with_range(TreeBuilder_object(o), r), f), g)
              = with_range(with_field(with_field(TreeBuilder_object(o), f), g), r)
        /\ with_field(with_range(with_field(TreeBuilder_object(o), f), r), g)
              = with_range(with_field(with_field(TreeBuilder_object(o), f), g), r)

\* C21: a node with range [start, end) renders its normal form followed by
\* {start,end}: a leaf as name{start,end}, an internal node as
\* name[children]{start,end}; a node without range renders no brace suffix;
\* where with_range stands among the builder calls does not change the result.
C21_RangeSuffix ==
    /\ pc = "built" =>
          /\ tree.range.tag = "Some" =>
                /\ query = TreeQueryParam_Display([tree EXCEPT !.range = None])
                           \o BraceSuffix(tree.range.v)
                /\ tree.keyname.tag = "Some" =>
                      query = NormalForm(tree.keyname.v, appended)
                              \o BraceSuffix(tree.range.v)
          /\ (tree.range.tag = "None" /\ tree.keyname.tag = "Some") =>
                /\ query = NormalForm(tree.keyname.v, appended)
                /\ query[Len(query)] # "}"
    /\ pc = "building" => RangeCallCommutes
    /\ TreeQueryParam_Display(with_range(TreeBuilder_object(key_builds),
                                         [start |-> [hi |-> 0, lo |-> 0],
                                          end |-> [hi |-> 0, lo |-> 10]]))
          = query_builds_range

\* an internal node with a range set before its last subfield
C21_Witness ==
    /\ pc = "built"
    /\ tree.keyname = Some(key_builds)
    /\ tree.range = Some(Range(0, MaxRangeEnd))
    /\ appended = <<key_url, key_result>>
    /\ query = key_builds \o <<"[">> \o key_url \o <<",">> \o key_result
               \o <<"]", "{", "0", ",", "2", "}">>

\* a leaf with a range
C21_WitnessLeaf ==
    /\ pc = "built"
    /\ tree = with_range(TreeBuilder_object(key_builds), Range(0, MaxRangeEnd))
    /\ query = key_builds \o <<"{", "0", ",", "2", "}">>

(***************************************************************************)
(* C22. The error mapping of post_with_body.                               *)
(***************************************************************************)
\* 'java.lang.<class>: ', its dots literal
JavaLang(class) == lit_java \o <<".">> \o lit_lang \o <<".">> \o class \o <<":", " ">>

\* the offsets where needle occurs in s
Occurrences(s, needle) ==
    {a \in 0..(Len(s) - Len(needle)) : Slice(s, a, a + Len(needle)) = needle}

\* the body holds 'java.lang.<class>: <m>' on one of its lines
Reports(s, class, m) ==
    \E a \in Occurrences(s, JavaLang(class)) :
        LET b == a + Len(JavaLang(class))
        IN m = Slice(s, b, LineEnd(s, b))

ReportsClass(s, class) == Occurrences(s, JavaLang(class)) # {}

PostWithBodyAnswered ==
    pc = "returned" /\ op.fn = "Jenkins::post_with_body" /\ response # Unset

\* a status 500 never yields Ok, a status that is no error yields Ok, and the
\* three answers of the tests of mod.rs give the errors the tests expect
C22_NeverOkAndTestBodies ==
    PostWithBodyAnswered =>
        /\ response.status = INTERNAL_SERVER_ERROR => outcome # Ok
        /\ response.status < 400 => outcome = Ok
        /\ (response.status = INTERNAL_SERVER_ERROR /\ response.readable) =>
              /\ response.body = ExceptionLine(body_prefix, <<".">>, lit_IllegalStateException,
                                               <<":", " ">>, body_message \o body_next_line)
                    => outcome = IllegalState(body_message)
              /\ response.body = ExceptionLine(body_prefix, <<".">>,
                                               lit_IllegalArgumentException,
                                               <<":", " ">>, body_message \o body_next_line)
                    => outcome = IllegalArgument(body_message)
              /\ response.body = ExceptionLine(body_prefix, <<".">>, body_NewException,
                                               <<":", " ">>, body_message \o body_next_line)
                    => outcome = StatusError(INTERNAL_SERVER_ERROR)

\* C22: a response with status 500 never yields Ok; a body that contains
\* 'java.lang.IllegalStateException: <m>' yields IllegalState with message m,
\* one that contains 'java.lang.IllegalArgumentException: <m>' yields
\* IllegalArgument with message m, any other body the plain HTTP status
\* error; a status that is no error yields Ok.
C22_ErrorMapping ==
    PostWithBodyAnswered =>
        /\ response.status = INTERNAL_SERVER_ERROR => outcome # Ok
        /\ response.status < 400 => outcome = Ok
        /\ (response.status = INTERNAL_SERVER_ERROR /\ response.readable) =>
              /\ ReportsClass(response.body, lit_IllegalStateException) =>
                    /\ outcome.tag = "IllegalState"
                    /\ Reports(response.body, lit_IllegalStateException, outcome.message)
              /\ ReportsClass(response.body, lit_IllegalArgumentException) =>
                    /\ outcome.tag = "IllegalArgument"
                    /\ Reports(response.body, lit_IllegalArgumentException, outcome.message)
              /\ (/\ ~ReportsClass(response.body, lit_IllegalStateException)
                  /\ ~ReportsClass(response.body, lit_IllegalArgumentException)) =>
                    outcome = StatusError(INTERNAL_SERVER_ERROR)

\* the part of C22 that fails for a body without 'java.lang.': the '.' of the
\* pattern stands for any character
C22_NoJavaLangIsStatusError ==
    (/\ PostWithBodyAnswered
     /\ response.status = INTERNAL_SERVER_ERROR
     /\ response.readable
     /\ response.body = ExceptionLine(<<>>, <<"-">>, lit_IllegalStateException,
                                      <<":", " ">>, body_message)) =>
        outcome = StatusError(INTERNAL_SERVER_ERROR)

\* the part of C22 that fails for an exception reported after another one
C22_WrappedIsIllegalState ==
    (/\ PostWithBodyAnswered
     /\ response.status = INTERNAL_SERVER_ERROR
     /\ response.readable
     /\ response.body = ExceptionLine(body_wrapping, <<".">>, lit_IllegalStateException,
                                      <<":", " ">>, body_message)) =>
        outcome = IllegalState(body_message)

(***************************************************************************)
(* C23. The endpoint of Jenkins::remove_job_from_view.                     *)
(***************************************************************************)
endpoint_removeJobFromView ==
    <<"/", "r", "e", "m", "o", "v", "e", "J", "o", "b", "F", "r", "o", "m",
      "V", "i", "e", "w", "?", "n", "a", "m", "e", "=">>

\* /view/<view_name>/removeJobFromView?name=<job_name>, plain names encoded
RemoveEndpoint(view_name, job_name) ==
    lit_view \o lit_slash \o urlencoding_encode(view_name)
    \o endpoint_removeJobFromView \o urlencoding_encode(job_name)

Posts == {i \in 1..Len(requests) : requests[i].method = "POST"}

\* ListView::remove_job posts to the removeJobFromView endpoint of its view
C23_ListViewRemoveJobEndpoint ==
    (pc = "returned" /\ op.fn = "ListView::remove_job" /\ Posts # {}) =>
        /\ Cardinality(Posts) = 1
        /\ \A i \in Posts :
              /\ requests[i].path.tag = "RemoveJobFromView"
              /\ requests[i].url = jenkins.url \o lit_view \o lit_slash \o path.name.v
                                   \o endpoint_removeJobFromView
                                   \o urlencoding_encode(op.names[1])

\* C23: Jenkins::remove_job_from_view(view_name, job_name) issues one POST to
\* /view/<view_name>/removeJobFromView?name=<job_name>, the endpoint
\* ListView::remove_job uses.
C23_RemoveJobFromViewEndpoint ==
    (pc = "returned" /\ op.fn = "Jenkins::remove_job_from_view"
                     /\ outcome \in {Ok, RequestError}) =>
        /\ Cardinality(Posts) = 1
        /\ \A i \in Posts :
              /\ requests[i].path = RemoveJobFromView(PlainName(op.names[2]),
                                                      PlainName(op.names[1]))
              /\ requests[i].url = jenkins.url \o RemoveEndpoint(op.names[1], op.names[2])

(***************************************************************************)
(* C24. View and job links.                                                *)
(***************************************************************************)
\* the names of the generated links that hold no '/'
LinkNames == LastPool \cup {seg_pct, seg_space, seg_query, seg_e_acute}

NameUrl(kind, n) == lit_slash \o kind \o lit_slash \o n \o lit_slash

\* C24: for a name n without '/', /view/<n>/ parses to View{name n} and
\* /job/<n>/ to Job{name n, configuration None}, n taken verbatim from the
\* input and tagged UrlEncodedName.
C24_ViewAndJobLinks ==
    pc # "input" =>
        \A n \in LinkNames :
            /\ NoSlash(n)
            /\ InputPath = NameUrl(seg_view, n) =>
                  path = [tag |-> "View", name |-> [tag |-> "UrlEncodedName", v |-> n]]
            /\ InputPath = NameUrl(seg_job, n) =>
                  path = [tag |-> "Job", name |-> [tag |-> "UrlEncodedName", v |-> n],
                          configuration |-> [tag |-> "None"]]

C24_Witness ==
    /\ pc = "parsed"
    /\ input = NameUrl(seg_view, seg_pct)
    /\ path = [tag |-> "View", name |-> [tag |-> "UrlEncodedName", v |-> seg_pct]]

C24_WitnessJob ==
    /\ pc = "parsed"
    /\ input = JENKINS_URL \o NameUrl(seg_job, seg_empty)
    /\ path = [tag |-> "Job", name |-> [tag |-> "UrlEncodedName", v |-> <<>>],
               configuration |-> [tag |-> "None"]]

(***************************************************************************)
(* C25. JenkinsBuilder::new and a trailing '/'.                            *)
(***************************************************************************)
\* C25: for a URL u that does not end in '/', new(u + "/") stores the base
\* URL new(u) stores, namely u, with no user set and CSRF enabled.
C25_TrailingSlashNormalised ==
    pc = "new" =>
        \A u \in BuilderUrls :
            (~EndsWithSlash(u) /\ input \in {u, u \o <<"/">>}) =>
                /\ jenkins.url = u
                /\ jenkins.user = [tag |-> "None"]
                /\ jenkins.csrf_enabled
                /\ jenkins = JenkinsBuilder_new(u)

C25_Witness ==
    /\ pc = "new"
    /\ input = JENKINS_URL \o <<"/">>
    /\ jenkins.url = JENKINS_URL
    /\ jenkins.user = None
    /\ jenkins.csrf_enabled

(***************************************************************************)
(* C26. The follow-up paths of a build link.                               *)
(***************************************************************************)
\* the call sent exactly one request, for the Path p
RequestsOnly(p) == Len(requests) = 1 /\ requests[1].method = "GET" /\ requests[1].path = p

\* C26: from a link parsing to Build{j, n, c}, get_console requests
\* ConsoleText{j, n, c, folder_name None} and get_job requests Job{j, c};
\* from one parsing to InFolder{f, Build{j, n, c}}, get_console requests
\* ConsoleText{j, n, c, Some(f)} and get_job requests InFolder{f, Job{j, c}};
\* names and their encoding tags are the parsed ones.  This holds from the
\* moment the request is sent to the return of the call.
C26_FollowUpPaths ==
    (pc # "idle" /\ path # Panic) =>
        /\ (op.fn = "Build::get_console" /\ path.tag = "Build") =>
              RequestsOnly([tag |-> "ConsoleText", job_name |-> path.job_name,
                            number |-> path.number, configuration |-> path.configuration,
                            folder_name |-> [tag |-> "None"]])
        /\ (op.fn = "Build::get_job" /\ path.tag = "Build") =>
              RequestsOnly([tag |-> "Job", name |-> path.job_name,
                            configuration |-> path.configuration])
        /\ (op.fn = "Build::get_console" /\ path.tag = "InFolder"
                                         /\ path.path.tag = "Build") =>
              RequestsOnly([tag |-> "ConsoleText", job_name |-> path.path.job_name,
                            number |-> path.path.number,
                            configuration |-> path.path.configuration,
                            folder_name |-> [tag |-> "Some", v |-> path.folder_name]])
        /\ (op.fn = "Build::get_job" /\ path.tag = "InFolder" /\ path.path.tag = "Build") =>
              RequestsOnly([tag |-> "InFolder", folder_name |-> path.folder_name,
                            path |-> [tag |-> "Job", name |-> path.path.job_name,
                                      configuration |-> path.path.configuration]])

\* get_console from a build link in a folder
C26_Witness ==
    /\ pc = "returned"
    /\ op.fn = "Build::get_console"
    /\ input = JoinSegs(<<seg_job, seg_a, seg_job, seg_a, seg_7>>) \o lit_slash
    /\ path = InFolder(Enc(seg_a), Build(Enc(seg_a), Number([hi |-> 0, lo |-> 7]), None))
    /\ requests[1].path = ConsoleText(Enc(seg_a), Number([hi |-> 0, lo |-> 7]), None,
                                      Some(Enc(seg_a)))

\* get_job from a build link with a configuration
C26_WitnessConfiguration ==
    /\ pc = "returned"
    /\ op.fn = "Build::get_job"
    /\ path = Build(Enc(seg_a), Number([hi |-> 0, lo |-> 7]), Some(Enc(seg_a)))
    /\ requests[1].path = Job(Enc(seg_a), Some(Enc(seg_a)))

(***************************************************************************)
(* C27. The crumb request before a POST.                                   *)
(***************************************************************************)
CrumbRequests == {i \in 1..Len(requests) : requests[i].path = [tag |-> "CrumbIssuer"]}

PostingOps ==
    {"ListView::add_job", "ListView::remove_job", "Jenkins::add_job_to_view",
     "Jenkins::remove_job_from_view", "Jenkins::post_with_body",
     "Job::enable", "Job::disable", "Job::add_to_view", "Job::remove_from_view",
     "Job::build", "Jenkins::build_job"}

\* C27: with CSRF enabled, a GET to the crumb issuer comes right before every
\* POST (post, post_with_body) and the POST carries the crumb; when the crumb
\* cannot be had or made into a header no POST is sent; a client built with
\* disable_csrf makes no crumb request.  This holds in every state of a call,
\* in flight or returned.
C27_CrumbBeforePost ==
    pc # "idle" =>
        /\ \A i \in Posts :
              /\ op.fn \in PostingOps
              /\ jenkins.csrf_enabled =>
                    /\ i > 1
                    /\ requests[i - 1].method = "GET"
                    /\ (i - 1) \in CrumbRequests
                    /\ requests[i].crumb
              /\ ~jenkins.csrf_enabled => ~requests[i].crumb
        /\ outcome = CrumbError =>
              /\ Posts = {}
              /\ CrumbRequests # {}
        /\ ~jenkins.csrf_enabled => CrumbRequests = {}
        /\ Cardinality(Posts) <= 1

\* post_with_body on a client with CSRF enabled: the crumb, then the POST
C27_Witness ==
    /\ pc = "returned"
    /\ op.fn = "Jenkins::post_with_body"
    /\ jenkins.csrf_enabled
    /\ Len(requests) = 2
    /\ requests[1].path = CrumbIssuer
    /\ requests[2].method = "POST"
    /\ requests[2].crumb
    /\ outcome = Ok

\* the crumb request fails: no POST
C27_WitnessNoCrumb ==
    /\ pc = "returned"
    /\ op.fn = "Jenkins::add_job_to_view"
    /\ outcome = CrumbError
    /\ Len(requests) = 1
    /\ requests[1].path = CrumbIssuer

\* a client built with disable_csrf: the POST alone
C27_WitnessDisabled ==
    /\ pc = "returned"
    /\ op.fn = "Jenkins::add_job_to_view"
    /\ ~jenkins.csrf_enabled
    /\ Len(requests) = 1
    /\ requests[1].method = "POST"

(***************************************************************************)
(* C28. Six '/' and the suffix of a maven-artifact link.                   *)
(***************************************************************************)
SixSlashUrl(a, b, c, d) == JoinSegs(<<seg_job, a, b, c, d>>) \o lit_slash

\* the links /job/A/B/C/D/ whose B is not "job"
SixSlashCases ==
    {[url |-> SixSlashUrl(a, b, c, d), d |-> d] :
        a \in SegPool, b \in SegPool \ {seg_job}, c \in SegPool, d \in LastPool}

\* /job/A/B/C/mavenArtifacts/ with B not "job" and C a number is the
\* MavenArtifactRecord of job A, number C, configuration B
C28_MavenSuffixIsRecord ==
    pc # "input" =>
        \A a \in SegPool, b \in SegPool \ {seg_job}, c \in {x \in SegPool : IsDigitsU32(x)} :
            InputPath = SixSlashUrl(a, b, c, seg_maven) =>
                path = MavenArtifactRecord(Enc(a), Number(DecimalValue(c)), Some(Enc(b)))

\* C28: /job/A/B/C/D/ with B other than "job" is a MavenArtifactRecord only
\* when D is 'mavenArtifacts'; with any other D the result is not a
\* MavenArtifactRecord.
C28_OnlyWithMavenSuffix ==
    pc # "input" =>
        \A k \in SixSlashCases :
            (InputPath = k.url /\ k.d # seg_maven) =>
                (path = Panic \/ path.tag # "MavenArtifactRecord")

(***************************************************************************)
(* C29. Integers as build numbers.                                         *)
(***************************************************************************)
\* the value of the integer is the unsigned 32-bit number n
SameValue(v, n) == ~v.neg /\ v.above = Zero32 /\ v.mag = n

FitsBuildNumber(v) == ~v.neg /\ v.above = Zero32

\* an integer between 0 and 2^32 - 1 keeps its value, whatever its type
C29_ValueKeptInRange ==
    (pc \in {"number", "rendered"} /\ FitsBuildNumber(op.value)) =>
        /\ path.number.tag = "Number"
        /\ SameValue(op.value, path.number.n)
        /\ pc = "rendered" =>
              rendered = lit_job \o lit_slash \o seg_a \o lit_slash \o FmtU32(op.value.mag)

\* C29: for every value v of u8, u16, u32, u64, i8, i16, i32 and i64,
\* BuildNumber::from(v) is Number(n) with n equal to v, and the rendered
\* build segment is the decimal form of v.
C29_ValueKept ==
    pc \in {"number", "rendered"} =>
        /\ path.number.tag = "Number"
        /\ SameValue(op.value, path.number.n)
        /\ pc = "rendered" =>
              rendered = lit_job \o lit_slash \o seg_a \o lit_slash \o FmtU32(op.value.mag)

(***************************************************************************)
(* C30. The URL of a GET request.                                          *)
(***************************************************************************)
Gets == {i \in 1..Len(requests) : requests[i].method = "GET"}

EndsWith(s, suffix) ==
    Len(suffix) <= Len(s) /\ Slice(s, Len(s) - Len(suffix), Len(s)) = suffix

\* the URL of a GET request is the base URL, the rendered path, '/api/json'
C30_BasePathSuffix ==
    pc = "returned" =>
        \A i \in Gets :
            requests[i].url = jenkins.url \o Display(requests[i].path) \o lit_api_json

\* C30: the URL of every GET request is the base URL, the rendered path and
\* the suffix '/api/json', and holds '/api/json' exactly once, at its end.
C30_ApiJsonOnce ==
    pc = "returned" =>
        \A i \in Gets :
            /\ requests[i].url = jenkins.url \o Display(requests[i].path) \o lit_api_json
            /\ EndsWith(requests[i].url, lit_api_json)
            /\ Cardinality(Occurrences(requests[i].url, lit_api_json)) = 1

\* the URL the request of get_nodes should have, /computer/api/json once
C30_GetNodesUrl ==
    (pc = "returned" /\ op.fn = "Jenkins::get_nodes") =>
        requests[1].url = jenkins.url \o JoinSegs(<<<<"c", "o", "m", "p", "u", "t", "e", "r">>>>)
                          \o lit_api_json

====
